---------------------------- MODULE Spec2Model ----------------------------
(***************************************************************************)
(* A model of the connector layer of sPyNNaker:                            *)
(*   - FixedNumberPostConnector (host-side selection, validation, bounds,  *)
(*     machine-generation parameters),                                     *)
(*   - ConvolutionConnector (post shape, validation, weight bound, device  *)
(*     parameter block),                                                   *)
(*   - Projection construction against the application graph.              *)
(* Each object under study has its own specification; the variables of    *)
(* the objects a specification does not exercise stay at their idle value. *)
(***************************************************************************)
EXTENDS Integers, Sequences, FiniteSets, TLC

VARIABLES
    holder_status,    \* "idle", or "constructed" once a Projection exists
    the_projection,    \* the Projection whose connections are asked for
    holder_result,    \* the ConnectionHolder returned by the last get or save
    api_status,    \* "idle" or "ready": the module spynnaker.pyNN
    data_status,    \* the status SpynnakerDataView reports
    simulator,    \* the module global __simulator and the simulator of
                  \* external_devices (0 is None)
    instances,    \* the SpiNNaker instances created so far
    setup_calls,    \* the calls of setup() made so far
    api_result,    \* what the last setup() or end() call did
    spif_status,    \* "idle", "new", "constructed" or "rejected"
    spif,    \* the SPIFRetinaDevice object (its slots)
    spif_result,    \* what the last call on the device returned / raised
    so_status,    \* "idle", "chosen", "masks", "encoded" or "decoded"
    so,    \* a SourceOrder with the field widths it is asked about
    so_result,    \* the masks, the key built from the fields, the fields read back
    pd_status,    \* "idle" or "ready": a target vertex with LocalOnlyPoolDense
    incoming_projections,    \* the projections into the target application vertex
    cached_sources,    \* LocalOnlyPoolDense.__cached_sources for that vertex
    pd_result,    \* what the last call on the LocalOnlyPoolDense did
    proj_status,    \* "idle" or "ready": the simulation being built
    graph,          \* the application graph, its vertices' projection state
                    \* and the data view
    proj_result,    \* what the last Projection(...) call did
    conv_status,    \* "idle" or "constructed"
    conv,           \* the ConvolutionConnector object (its slots)
    conv_result,    \* what the last call on that connector returned / raised
    fnp_status,     \* "idle", "constructed", "configured" or "rejected"
    fnp,            \* the FixedNumberPostConnector object (its slots)
    synapse_info,   \* the SynapseInformation the connector is used with
    fnp_result      \* what the last call on the connector returned / raised

fnp_vars == <<fnp_status, fnp, synapse_info, fnp_result>>

conv_vars == <<conv_status, conv, conv_result>>

proj_vars == <<proj_status, graph, proj_result>>

pd_vars == <<pd_status, incoming_projections, cached_sources, pd_result>>

so_vars == <<so_status, so, so_result>>

spif_vars == <<spif_status, spif, spif_result>>

api_vars == <<api_status, data_status, simulator, instances, setup_calls,
             api_result>>

holder_vars == <<holder_status, the_projection, holder_result>>

vars == <<holder_status, the_projection, holder_result,
          api_status, data_status, simulator, instances, setup_calls,
          api_result,
          spif_status, spif, spif_result,
          so_status, so, so_result,
          pd_status, incoming_projections, cached_sources, pd_result,
          fnp_status, fnp, synapse_info, fnp_result,
          conv_status, conv, conv_result,
          proj_status, graph, proj_result>>

(***************************************************************************)
(* Bounds of the model.                                                    *)
(***************************************************************************)
MaxPre == 3       \* largest pre-population size explored
MaxPost == 3      \* largest post-population size explored
MaxN == 3         \* largest n given to FixedNumberPostConnector
MaxKernel == 2    \* largest kernel extent given as kernel_shape
MaxStride == 2    \* largest stride
MaxPad == 1       \* largest padding
MaxPool == 2      \* largest pooling extent and pooling stride
MaxShape == 4     \* largest extent of a 2D population
MaxDelay == 2     \* largest local delay / delay stage / weight index
MaxScale == 3     \* largest small weight scale
MaxEdgeKernel == 3    \* largest kernel extent of a connector whose edges are
                      \* filtered
MaxGrid == 8      \* extent of the pre-population whose tiles are filtered
MaxTile == 3      \* largest extent of a tile (machine vertex slice)
MaxProjections == 2   \* number of Projection(...) calls explored
MaxIncoming == 3      \* most projections into the LocalOnlyPoolDense vertex
MaxAtoms == 2         \* most atoms of a target machine vertex
MaxFieldBits == 30    \* widest x or y field of a retina key
MaxCoordBits == 2     \* widest field whose every coordinate is encoded
MaxWidth == 8         \* widest retina
MaxHeight == 4        \* tallest retina
MaxSubWidth == 8      \* widest sub-square asked for
MaxSubHeight == 4     \* tallest sub-square asked for

(***************************************************************************)
(* Program constants.                                                      *)
(***************************************************************************)
BYTES_PER_WORD == 4
BYTES_PER_SHORT == 2
ChanceDenominator == 100000    \* chance = 1.0 / 100000.0

(***************************************************************************)
(* Generic helpers.                                                        *)
(***************************************************************************)
Range(s) == {s[i] : i \in DOMAIN s}

RECURSIVE SumSeq(_)
SumSeq(s) == IF s = << >> THEN 0 ELSE Head(s) + SumSeq(Tail(s))

RECURSIVE Pow(_, _)
Pow(b, e) == IF e = 0 THEN 1 ELSE b * Pow(b, e - 1)

RECURSIVE Binomial(_, _)
Binomial(n, k) ==
    IF k = 0 \/ k = n THEN 1
    ELSE IF k < 0 \/ k > n THEN 0
    ELSE Binomial(n - 1, k - 1) + Binomial(n - 1, k)

Max(a, b) == IF a >= b THEN a ELSE b
Min(a, b) == IF a <= b THEN a ELSE b

\* The elements of s that satisfy lo <= x <= hi, in order (boolean-mask
\* indexing of a numpy array).
RECURSIVE Masked(_, _, _)
Masked(s, lo, hi) ==
    IF s = << >> THEN << >>
    ELSE IF lo <= Head(s) /\ Head(s) <= hi
         THEN <<Head(s)>> \o Masked(Tail(s), lo, hi)
         ELSE Masked(Tail(s), lo, hi)

\* Number of occurrences of x in s.
RECURSIVE Count(_, _)
Count(s, x) ==
    IF s = << >> THEN 0
    ELSE (IF Head(s) = x THEN 1 ELSE 0) + Count(Tail(s), x)

Distinct(s) == \A i, j \in DOMAIN s : i # j => s[i] # s[j]

(***************************************************************************)
(* numpy / RNG primitives used by the connector.                           *)
(***************************************************************************)
\* numpy.arange(lo, hi): the sequence lo, lo+1, ..., hi-1.
arange(lo, hi) == [i \in 1..Max(hi - lo, 0) |-> lo + i - 1]

\* numpy.concatenate([a, b])
concatenate(a, b) == a \o b

\* rng.choice(a, size, replace): every array the generator can return.
\* Without replacement the draws are distinct positions of a; a request for
\* more distinct draws than a holds raises ValueError (no array: {}).
rng_choice(a, size, replace) ==
    IF size = 0 THEN {<< >>}
    ELSE IF a = << >> THEN {}
    ELSE IF replace
         THEN {[i \in 1..size |-> a[p[i]]] : p \in [1..size -> DOMAIN a]}
         ELSE {[i \in 1..size |-> a[p[i]]] :
                  p \in {q \in [1..size -> DOMAIN a] : Distinct(q)}}

\* Python's None, as an element of a list of arrays of neuron indices (no
\* array holds the index -1).
None == <<-1>>
is_None(x) == x = None

\* numpy.empty([0], dtype=integer)
empty_array == << >>


(***************************************************************************)
(* utility_calls (spynnaker/pyNN/utilities/utility_calls.py).               *)
(***************************************************************************)
\* The binomial CDF at k for n_trials trials of probability p_num / p_den,
\* times p_den ^ n_trials (an integer).
RECURSIVE BinomCdfScaled(_, _, _, _)
BinomCdfScaled(k, n_trials, p_num, p_den) ==
    IF k < 0 THEN 0
    ELSE Binomial(n_trials, k) * Pow(p_num, k)
            * Pow(p_den - p_num, n_trials - k)
         + BinomCdfScaled(k - 1, n_trials, p_num, p_den)

\* get_probable_maximum_selected(n_total_trials, n_trials, selection_prob,
\* chance): the inverse binomial CDF at 1 - chance / n_total_trials, i.e. the
\* least k whose CDF reaches that probability; selection_prob is
\* p_num / p_den and chance is 1 / chance_den.
get_probable_maximum_selected(n_total_trials, n_trials, p_num, p_den, chance_den) ==
    CHOOSE k \in 0..n_trials :
        /\ BinomCdfScaled(k, n_trials, p_num, p_den)
               * (chance_den * n_total_trials)
           >= (chance_den * n_total_trials - 1) * Pow(p_den, n_trials)
        /\ \A j \in 0..(k - 1) :
              BinomCdfScaled(j, n_trials, p_num, p_den)
                  * (chance_den * n_total_trials)
              < (chance_den * n_total_trials - 1) * Pow(p_den, n_trials)

\* check_rng(rng, where): logs a warning about seeded generators; it never
\* raises.
check_rng(rng) == FALSE

(***************************************************************************)
(* FixedNumberPostConnector.                                               *)
(*   connector record c: n_post, allow_self_connections, with_replacement, *)
(*     post_neurons, post_neurons_set, rng                                 *)
(*   synapse information s: n_pre_neurons, n_post_neurons, same_population *)
(*     (pre_population is post_population)                                 *)
(***************************************************************************)
\* __init__
FixedNumberPostConnector(n, allow_self_connections, with_replacement, rng) ==
    [n_post |-> n,
     allow_self_connections |-> allow_self_connections,
     with_replacement |-> with_replacement,
     post_neurons |-> << >>,
     post_neurons_set |-> FALSE,
     rng |-> rng]

\* Mutant: the check of the self-connection case is left out.
set_projection_information_raises_first_check_only(c, s) ==
    ~c.with_replacement /\ c.n_post > s.n_post_neurons

\* Mutant: the self-connection check compares n with the size of the
\* eligible pool (n_post_neurons - 1) instead of n_post_neurons.
set_projection_information_raises_at_pool_size(c, s) ==
    \/ (~c.with_replacement /\ c.n_post > s.n_post_neurons)
    \/ (/\ ~c.with_replacement
        /\ ~c.allow_self_connections
        /\ c.n_post = s.n_post_neurons - 1
        /\ s.same_population)

\* set_projection_information: TRUE when SpynnakerException is raised.
set_projection_information_raises(c, s) ==
    \/ (~c.with_replacement /\ c.n_post > s.n_post_neurons)
    \/ (/\ ~c.with_replacement
        /\ ~c.allow_self_connections
        /\ c.n_post = s.n_post_neurons
        /\ s.same_population)

\* "Create a list without the pre_neuron in it"
no_self_post_neurons(m, n_post_neurons) ==
    concatenate(arange(0, m), arange(m + 1, n_post_neurons))

\* The arrays the body of the loop of __build_post_neurons can draw for the
\* pre-neuron m.
choice_for_pre_neuron(c, s, m) ==
    IF s.same_population /\ ~c.allow_self_connections
    THEN rng_choice(no_self_post_neurons(m, s.n_post_neurons),
                    c.n_post, c.with_replacement)
    ELSE rng_choice(arange(0, s.n_post_neurons),
                    c.n_post, c.with_replacement)

\* The list __build_post_neurons starts from: one (shared) empty array per
\* pre-neuron.
initial_post_neurons(s) == [i \in 1..s.n_pre_neurons |-> empty_array]

\* The entries the loop leaves for pre-neuron m: a fresh draw when the entry
\* "is None", the entry itself otherwise.
post_neurons_entry(c, s, m, entry) ==
    IF is_None(entry) THEN choice_for_pre_neuron(c, s, m) ELSE {entry}

\* Mutant: every pre-neuron draws, and draws from the whole post-population
\* whatever allow_self_connections says.
build_post_neurons_drawing_from_all(c, s) ==
    [1..s.n_pre_neurons ->
        rng_choice(arange(0, s.n_post_neurons), c.n_post,
                   c.with_replacement)]

\* __build_post_neurons: every list the call can return (one per outcome of
\* the random generator); entry m + 1 of the sequence is post_neurons[m].
build_post_neurons(c, s) ==
    LET entries == UNION {post_neurons_entry(
                               c, s, m, initial_post_neurons(s)[m + 1]) :
                           m \in 0..(s.n_pre_neurons - 1)}
    IN  {l \in [1..s.n_pre_neurons -> entries] :
            \A m \in 0..(s.n_pre_neurons - 1) :
                l[m + 1] \in post_neurons_entry(
                                 c, s, m, initial_post_neurons(s)[m + 1])}

\* _get_post_neurons that never records that the selection is built, and so
\* builds it at every call.
get_post_neurons_rebuilding(c, s) ==
    {[c EXCEPT !.post_neurons = l] : l \in build_post_neurons(c, s)}

\* _get_post_neurons: the connectors the call can leave behind (the list it
\* returns is post_neurons of that connector).
get_post_neurons(c, s) ==
    IF ~c.post_neurons_set
    THEN {[c EXCEPT !.post_neurons = l, !.post_neurons_set = TRUE] :
             l \in build_post_neurons(c, s)}
    ELSE {c}

\* _post_neurons_in_slice on a connector whose selection is built.
post_neurons_in_slice(c, lo_atom, hi_atom, n) ==
    Masked(c.post_neurons[n + 1], lo_atom, hi_atom)

\* _n_post_neurons_in_slice on a connector whose selection is built.
n_post_neurons_in_slice(c, lo_atom, hi_atom, n) ==
    Len(Masked(c.post_neurons[n + 1], lo_atom, hi_atom))

\* The (source, target) columns of the block for pre-neurons n..hi.
RECURSIVE block_rows(_, _, _, _, _)
block_rows(c, lo_atom, hi_atom, n, hi) ==
    IF n > hi THEN << >>
    ELSE [i \in 1..Len(post_neurons_in_slice(c, lo_atom, hi_atom, n)) |->
             [source |-> n,
              target |-> post_neurons_in_slice(c, lo_atom, hi_atom, n)[i]]]
         \o block_rows(c, lo_atom, hi_atom, n + 1, hi)

\* create_synaptic_block on a connector whose selection is built: the block
\* has n_connections rows, which the source and target lists must fill.
create_synaptic_block(c, s, lo_atom, hi_atom) ==
    LET lo == 0
        hi == s.n_pre_neurons - 1
        n_connections ==
            SumSeq([i \in 1..s.n_pre_neurons |->
                       n_post_neurons_in_slice(c, lo_atom, hi_atom, i - 1)])
        rows == block_rows(c, lo_atom, hi_atom, lo, hi)
    IN  [raised |-> Len(rows) # n_connections, rows |-> rows]

\* get_n_connections_to_post_vertex_maximum
get_n_connections_to_post_vertex_maximum(c, s) ==
    get_probable_maximum_selected(
        s.n_pre_neurons * s.n_post_neurons,
        s.n_pre_neurons, 1, s.n_post_neurons, ChanceDenominator)

\* gen_connector_params: the uint32 words.
gen_connector_params(c, s) ==
    LET allow_self == c.allow_self_connections \/ ~s.same_population
    IN  <<IF allow_self THEN 1 ELSE 0,
          IF c.with_replacement THEN 1 ELSE 0,
          c.n_post>>

\* gen_connector_params_size_in_bytes
gen_connector_params_size_in_bytes == 3 * BYTES_PER_WORD

\* validate_connection: TRUE when it raises.
fnp_validate_connection_raises(c, s, on_machine) ==
    IF on_machine THEN check_rng(c.rng) ELSE FALSE

(***************************************************************************)
(* The FixedNumberPostConnector under use: its state machine.              *)
(***************************************************************************)
NoResult ==
    [op |-> "none", raised |-> FALSE, rows |-> << >>, bound |-> 0,
     params |-> << >>, size |-> 0, lo_atom |-> 0, hi_atom |-> 0,
     blocks |-> << >>]

\* The SynapseInformation objects explored: a projection of a population
\* onto itself has as many pre- as post-neurons.
SynapseInformations ==
    {[n_pre_neurons |-> a, n_post_neurons |-> b, same_population |-> same] :
        a \in 1..MaxPre, b \in 1..MaxPost, same \in BOOLEAN} \
    {x \in [n_pre_neurons : 1..MaxPre, n_post_neurons : 1..MaxPost,
            same_population : BOOLEAN] :
        x.same_population /\ x.n_pre_neurons # x.n_post_neurons}

HolderIdle ==
    /\ holder_status = "idle"
    /\ the_projection = << >>
    /\ holder_result = << >>

ApiIdle ==
    /\ api_status = "idle"
    /\ data_status = "NOT_SETUP"
    /\ simulator = << >>
    /\ instances = << >>
    /\ setup_calls = 0
    /\ api_result = << >>

SpifIdle ==
    /\ spif_status = "idle"
    /\ spif = << >>
    /\ spif_result = << >>

SoIdle ==
    /\ so_status = "idle"
    /\ so = << >>
    /\ so_result = << >>

PdIdle ==
    /\ pd_status = "idle"
    /\ incoming_projections = << >>
    /\ cached_sources = << >>
    /\ pd_result = << >>

ProjIdle ==
    /\ proj_status = "idle"
    /\ graph = << >>
    /\ proj_result = << >>

NoConvResult ==
    [op |-> "none", raised |-> FALSE, shape |-> << >>, post_shape |-> << >>,
     pre_atoms_shape |-> << >>, post_atoms_shape |-> << >>,
     synapse_ids |-> << >>, weight_maximum |-> [num |-> 0, den |-> 1],
     words |-> << >>, size |-> 0,
     pre_vertices |-> {}, post_vertices |-> {}, connected |-> << >>,
     local_delay |-> 0, delay_stage |-> 0, weight_index |-> 0,
     weight_scales |-> << >>, encoded |-> << >>,
     kernel_weights_before |-> << >>]

ConvIdle ==
    /\ conv_status = "idle"
    /\ conv = [kernel_weights |-> << >>]
    /\ conv_result = NoConvResult

FnpIdle ==
    /\ fnp_status = "idle"
    /\ fnp = FixedNumberPostConnector(0, TRUE, FALSE, "None")
    /\ synapse_info = [n_pre_neurons |-> 0, n_post_neurons |-> 0,
                       same_population |-> FALSE]
    /\ fnp_result = NoResult

InitFNP ==
    /\ ConvIdle
    /\ ProjIdle
    /\ PdIdle
    /\ SoIdle
    /\ SpifIdle
    /\ ApiIdle
    /\ HolderIdle
    /\ fnp_status = "constructed"
    /\ \E n \in 1..MaxN, allow_self \in BOOLEAN, replace \in BOOLEAN,
          rng \in {"None", "NumpyRNG"} :
          fnp = FixedNumberPostConnector(n, allow_self, replace, rng)
    /\ synapse_info \in SynapseInformations
    /\ fnp_result = NoResult

\* connector.set_projection_information(synapse_info)
FnpSetProjectionInformation ==
    /\ fnp_status = "constructed"
    /\ LET raised == set_projection_information_raises(fnp, synapse_info)
       IN  /\ fnp_status' = IF raised THEN "rejected" ELSE "configured"
           /\ fnp_result' = [NoResult EXCEPT
                                !.op = "set_projection_information",
                                !.raised = raised]
    /\ UNCHANGED <<fnp, synapse_info>>
    /\ UNCHANGED <<conv_vars, proj_vars, pd_vars, so_vars, spif_vars, api_vars, holder_vars>>

\* connector._get_post_neurons(synapse_info)
FnpGetPostNeurons ==
    /\ fnp_status = "configured"
    /\ get_post_neurons(fnp, synapse_info) # {}
    /\ fnp' \in get_post_neurons(fnp, synapse_info)
    /\ fnp_result' = [NoResult EXCEPT !.op = "_get_post_neurons"]
    /\ UNCHANGED <<fnp_status, synapse_info>>
    /\ UNCHANGED <<conv_vars, proj_vars, pd_vars, so_vars, spif_vars, api_vars, holder_vars>>

\* connector.create_synaptic_block(post_slices, post_vertex_slice, ...) for
\* the post-vertex slice [lo_atom, hi_atom]
FnpCreateSynapticBlock ==
    /\ fnp_status = "configured"
    /\ get_post_neurons(fnp, synapse_info) # {}
    /\ \E lo_atom \in 0..(synapse_info.n_post_neurons - 1) :
       \E hi_atom \in lo_atom..(synapse_info.n_post_neurons - 1) :
       \E c \in get_post_neurons(fnp, synapse_info) :
          LET block == create_synaptic_block(c, synapse_info,
                                             lo_atom, hi_atom)
          IN  /\ fnp' = c
              /\ fnp_result' = [NoResult EXCEPT
                                   !.op = "create_synaptic_block",
                                   !.raised = block.raised,
                                   !.rows = block.rows,
                                   !.lo_atom = lo_atom,
                                   !.hi_atom = hi_atom]
    /\ UNCHANGED <<fnp_status, synapse_info>>
    /\ UNCHANGED <<conv_vars, proj_vars, pd_vars, so_vars, spif_vars, api_vars, holder_vars>>

\* connector.create_synaptic_block(...) called for the post-vertex slices one
\* after the other: the slice starts where the slice of the previous call
\* ended (at 0 for the first slice of the post-population); blocks collects
\* the blocks returned for the slices so far.
FnpCreateSynapticBlockOfNextSlice ==
    /\ fnp_status = "configured"
    /\ get_post_neurons(fnp, synapse_info) # {}
    /\ LET done == fnp_result.blocks
           continues == /\ done # << >>
                        /\ done[Len(done)].hi_atom
                               < synapse_info.n_post_neurons - 1
           lo_atom == IF continues THEN done[Len(done)].hi_atom + 1 ELSE 0
       IN  \E hi_atom \in lo_atom..(synapse_info.n_post_neurons - 1) :
           \E c \in get_post_neurons(fnp, synapse_info) :
              LET block == create_synaptic_block(c, synapse_info,
                                                 lo_atom, hi_atom)
              IN  /\ fnp' = c
                  /\ fnp_result' =
                         [NoResult EXCEPT
                             !.op = "create_synaptic_block",
                             !.raised = block.raised,
                             !.rows = block.rows,
                             !.lo_atom = lo_atom,
                             !.hi_atom = hi_atom,
                             !.blocks =
                                 Append(IF continues THEN done ELSE << >>,
                                        [lo_atom |-> lo_atom,
                                         hi_atom |-> hi_atom,
                                         rows |-> block.rows])]
    /\ UNCHANGED <<fnp_status, synapse_info>>
    /\ UNCHANGED <<conv_vars, proj_vars, pd_vars, so_vars, spif_vars, api_vars, holder_vars>>

\* connector.get_n_connections_to_post_vertex_maximum(synapse_info)
FnpGetNConnectionsToPostVertexMaximum ==
    /\ fnp_status = "configured"
    /\ fnp_result' =
          [NoResult EXCEPT
              !.op = "get_n_connections_to_post_vertex_maximum",
              !.bound = get_n_connections_to_post_vertex_maximum(
                            fnp, synapse_info)]
    /\ UNCHANGED <<fnp_status, fnp, synapse_info>>
    /\ UNCHANGED <<conv_vars, proj_vars, pd_vars, so_vars, spif_vars, api_vars, holder_vars>>

\* connector.gen_connector_params(synapse_info), with the size the
\* connector declares for it
FnpGenConnectorParams ==
    /\ fnp_status = "configured"
    /\ fnp_result' =
          [NoResult EXCEPT
              !.op = "gen_connector_params",
              !.params = gen_connector_params(fnp, synapse_info),
              !.size = gen_connector_params_size_in_bytes]
    /\ UNCHANGED <<fnp_status, fnp, synapse_info>>
    /\ UNCHANGED <<conv_vars, proj_vars, pd_vars, so_vars, spif_vars, api_vars, holder_vars>>

\* connector.validate_connection(application_edge, synapse_info)
FnpValidateConnection ==
    /\ fnp_status = "configured"
    /\ \E on_machine \in BOOLEAN :
          fnp_result' =
              [NoResult EXCEPT
                  !.op = "validate_connection",
                  !.raised = fnp_validate_connection_raises(
                                 fnp, synapse_info, on_machine)]
    /\ UNCHANGED <<fnp_status, fnp, synapse_info>>
    /\ UNCHANGED <<conv_vars, proj_vars, pd_vars, so_vars, spif_vars, api_vars, holder_vars>>

NextFNP ==
    \/ FnpSetProjectionInformation
    \/ FnpGetPostNeurons
    \/ FnpCreateSynapticBlock
    \/ FnpCreateSynapticBlockOfNextSlice
    \/ FnpGetNConnectionsToPostVertexMaximum
    \/ FnpGenConnectorParams
    \/ FnpValidateConnection

SpecFNP == InitFNP /\ [][NextFNP]_vars

\* The connector object is given to a further Projection, whose constructor
\* calls connector.set_projection_information(synapse_info) with its own
\* SynapseInformation; the queries that follow are made for that projection.
\* When the call raises, the construction fails and the connector stays
\* with the projection it had.
FnpSetProjectionInformationOfOther ==
    /\ fnp_status = "configured"
    /\ \E other \in SynapseInformations \ {synapse_info} :
          LET raised == set_projection_information_raises(fnp, other)
          IN  /\ synapse_info' = IF raised THEN synapse_info ELSE other
              /\ fnp_result' = [NoResult EXCEPT
                                   !.op = "set_projection_information",
                                   !.raised = raised]
    /\ UNCHANGED <<fnp_status, fnp>>
    /\ UNCHANGED <<conv_vars, proj_vars, pd_vars, so_vars, spif_vars, api_vars, holder_vars>>

\* One connector object used by several projections.
NextFnpShared ==
    \/ FnpSetProjectionInformation
    \/ FnpGetPostNeurons
    \/ FnpSetProjectionInformationOfOther

SpecFnpShared == InitFNP /\ [][NextFnpShared]_vars

(***************************************************************************)
(* Claims about FixedNumberPostConnector (checked under SpecFNP).          *)
(***************************************************************************)
SelectionBuilt == fnp_status = "configured" /\ fnp.post_neurons_set

\* C1: with with_replacement=False the built selection holds, for every
\* pre-neuron index m in [0, n_pre_neurons), exactly n post indices in
\* [0, n_post_neurons), all distinct.
C1_ExactlyNDistinctPostIndices ==
    (SelectionBuilt /\ ~fnp.with_replacement) =>
        /\ Len(fnp.post_neurons) = synapse_info.n_pre_neurons
        /\ \A m \in 0..(synapse_info.n_pre_neurons - 1) :
              /\ Len(fnp.post_neurons[m + 1]) = fnp.n_post
              /\ Distinct(fnp.post_neurons[m + 1])
              /\ Range(fnp.post_neurons[m + 1])
                     \subseteq 0..(synapse_info.n_post_neurons - 1)

ExceedsEligiblePool ==
    /\ ~fnp.with_replacement
    /\ \/ fnp.n_post > synapse_info.n_post_neurons
       \/ /\ synapse_info.same_population
          /\ ~fnp.allow_self_connections
          /\ fnp.n_post > synapse_info.n_post_neurons - 1

\* C3: set_projection_information raises SpynnakerException whenever
\* with_replacement is False and n is larger than the eligible partner pool
\* (n > n_post_neurons, or n > n_post_neurons - 1 for a projection of a
\* population onto itself with allow_self_connections False).
C3_RaisesWhenPoolExceeded ==
    (fnp_result.op = "set_projection_information" /\ ExceedsEligiblePool)
        => (fnp_result.raised /\ fnp_status = "rejected")

C3_Witness ==
    /\ fnp_result.op = "set_projection_information"
    /\ ExceedsEligiblePool
    /\ fnp.n_post = synapse_info.n_post_neurons
    /\ fnp_result.raised

\* A request without replacement and without self-connections, from a
\* population onto itself.
NoSelfSamePopulation ==
    /\ fnp_status # "idle"
    /\ ~fnp.with_replacement
    /\ ~fnp.allow_self_connections
    /\ synapse_info.same_population

\* C4 (as stated): such a request whose n equals the full eligible pool of
\* (population size - 1) partners fails validation: set_projection_information
\* or validate_connection raises.
C4_FullPoolFailsValidation ==
    (NoSelfSamePopulation /\ fnp.n_post = synapse_info.n_post_neurons - 1)
        => /\ fnp_result.op = "set_projection_information"
                 => fnp_result.raised
           /\ fnp_result.op = "validate_connection" => fnp_result.raised

\* C4 (amended): such a request fails validation when n equals the
\* population size (one more than the eligible pool): there
\* set_projection_information raises; with n equal to (population size - 1)
\* neither set_projection_information nor validate_connection raises.
C4_PopulationSizeFailsValidation ==
    /\ (/\ NoSelfSamePopulation
        /\ fnp.n_post = synapse_info.n_post_neurons
        /\ fnp_result.op = "set_projection_information")
           => (fnp_result.raised /\ fnp_status = "rejected")
    /\ (/\ NoSelfSamePopulation
        /\ fnp.n_post = synapse_info.n_post_neurons - 1
        /\ fnp_result.op \in {"set_projection_information",
                              "validate_connection"})
           => ~fnp_result.raised

C4_Witness ==
    /\ NoSelfSamePopulation
    /\ fnp.n_post = synapse_info.n_post_neurons
    /\ fnp_result.op = "set_projection_information"
    /\ fnp_result.raised

\* Every selection in which each pre-neuron m chooses n post indices the way
\* the connector is configured (with or without replacement, with or without
\* its own index).
Selections(c, s) ==
    {l \in [1..s.n_pre_neurons ->
               UNION {choice_for_pre_neuron(c, s, m) :
                         m \in 0..(s.n_pre_neurons - 1)}] :
        \A m \in 0..(s.n_pre_neurons - 1) :
            l[m + 1] \in choice_for_pre_neuron(c, s, m)}

\* The number of connections of the selection l that target post-neuron j.
ConnectionsToPost(l, j) == SumSeq([i \in DOMAIN l |-> Count(l[i], j)])

\* C8: the value of get_n_connections_to_post_vertex_maximum is never
\* smaller than the number of connections that target a single post-neuron
\* in any selection the connector can produce.
C8_BoundNeverUnderestimates ==
    fnp_result.op = "get_n_connections_to_post_vertex_maximum" =>
        \A l \in Selections(fnp, synapse_info) :
            \A j \in 0..(synapse_info.n_post_neurons - 1) :
                ConnectionsToPost(l, j) <= fnp_result.bound

(***************************************************************************)
(* ConvolutionConnector.                                                   *)
(*   Constructor arguments are tagged values: [kind |-> "None"],           *)
(*   [kind |-> "bool", v |-> b], [kind |-> "scalar", v |-> n],             *)
(*   [kind |-> "seq", v |-> <<...>>].                                      *)
(*   connector record c: kernel_weights (a matrix of numerators, rows of   *)
(*   columns), weight_den (their common positive denominator: the float    *)
(*   weights are kernel_weights / weight_den), strides, padding_shape,     *)
(*   pool_shape, pool_stride (pairs or None), positive_receptor_type,      *)
(*   negative_receptor_type, filter_edges.                                 *)
(***************************************************************************)
ArgNone == [kind |-> "None", v |-> 0]
ArgBool(b) == [kind |-> "bool", v |-> b]
ArgScalar(n) == [kind |-> "scalar", v |-> n]
ArgSeq(q) == [kind |-> "seq", v |-> q]

\* int(x) of a Python bool
bool_as_int(b) == IF b THEN 1 ELSE 0

\* __to_2d_shape: a pair, or None (a bool is a numpy scalar: True is 1).
to_2d_shape(shape) ==
    IF shape.kind = "None" THEN None
    ELSE IF shape.kind = "bool"
         THEN <<bool_as_int(shape.v), bool_as_int(shape.v)>>
    ELSE IF shape.kind = "scalar" THEN <<shape.v, shape.v>>
    ELSE IF Len(shape.v) = 1 THEN <<shape.v[1], 1>>
    ELSE shape.v

\* __get_kernel_shape
get_kernel_shape(shape) ==
    IF shape.kind = "scalar" THEN <<shape.v, shape.v>> ELSE shape.v

\* numpy.full(shape, w)
full(shape, w) == [r \in 1..shape[1] |-> [k \in 1..shape[2] |-> w]]

\* __decode_kernel: a single value with a kernel_shape, or a 2D list.
decode_kernel(w, shape) ==
    IF w.kind = "scalar" THEN full(get_kernel_shape(shape), w.v) ELSE w.v

\* kernel_weights.shape
kernel_shape_of(kernel_weights) ==
    <<Len(kernel_weights), Len(kernel_weights[1])>>

\* __decode_padding: bools are ints in Python, so True and False take the
\* first branch, like ints and tuples.
decode_padding(padding, kernel_weights) ==
    IF padding.kind \in {"bool", "scalar", "seq"}
    THEN to_2d_shape(padding)
    ELSE <<0, 0>>

\* numpy.prod of a pair
prod(shape) == shape[1] * shape[2]

\* __init__
ConvolutionConnector(kernel_weights, kernel_shape, strides, padding, pool_shape, pool_stride, positive_receptor_type, negative_receptor_type, filter_edges) ==
    LET weights == decode_kernel(kernel_weights, kernel_shape)
        the_pool_shape == to_2d_shape(pool_shape)
        given_pool_stride == to_2d_shape(pool_stride)
    IN  [kernel_weights |-> weights,
         weight_den |-> IF is_None(the_pool_shape) THEN 1
                        ELSE prod(the_pool_shape),
         padding_shape |-> decode_padding(padding, weights),
         filter_edges |-> filter_edges,
         strides |-> IF strides.kind = "None" THEN <<1, 1>>
                     ELSE to_2d_shape(strides),
         pool_shape |-> the_pool_shape,
         pool_stride |-> IF is_None(given_pool_stride) THEN the_pool_shape
                         ELSE given_pool_stride,
         positive_receptor_type |-> positive_receptor_type,
         negative_receptor_type |-> negative_receptor_type]

\* Mutant: the pre-shape is never divided by the pool stride.
get_post_shape_without_pooling(c, shape) ==
    LET kernel_shape == kernel_shape_of(c.kernel_weights)
    IN  [i \in 1..2 |->
            Max((shape[i] - (kernel_shape[i] - 1) + 2 * c.padding_shape[i])
                    \div c.strides[i], 1)]

\* get_post_shape: the values the returned generator yields.
get_post_shape(c, shape) ==
    LET pooled == IF ~is_None(c.pool_shape)
                  THEN [i \in 1..2 |-> shape[i] \div c.pool_stride[i]]
                  ELSE shape
        kernel_shape == kernel_shape_of(c.kernel_weights)
        post_shape == [i \in 1..2 |->
                          pooled[i] - (kernel_shape[i] - 1)
                              + 2 * c.padding_shape[i]]
    IN  [i \in 1..2 |-> Max(post_shape[i] \div c.strides[i], 1)]

\* post.get_synapse_id_by_target(receptor_type): the id, or None (-1);
\* synapse_ids maps the receptor types the vertex has to their ids.
NoSynapseId == -1
get_synapse_id_by_target(synapse_ids, receptor_type) ==
    IF receptor_type \in DOMAIN synapse_ids THEN synapse_ids[receptor_type]
    ELSE NoSynapseId

\* Mutant: the negative receptor type is not looked up.
conv_validate_connection_raises_positive_only(c, pre_atoms_shape, post_atoms_shape, synapse_ids) ==
    IF Len(pre_atoms_shape) # 2 \/ Len(post_atoms_shape) # 2 THEN TRUE
    ELSE IF get_post_shape(c, pre_atoms_shape) # post_atoms_shape THEN TRUE
    ELSE get_synapse_id_by_target(synapse_ids, c.positive_receptor_type)
             = NoSynapseId

\* validate_connection: TRUE when ConfigurationException is raised.
conv_validate_connection_raises(c, pre_atoms_shape, post_atoms_shape, synapse_ids) ==
    IF Len(pre_atoms_shape) # 2 \/ Len(post_atoms_shape) # 2 THEN TRUE
    ELSE IF get_post_shape(c, pre_atoms_shape) # post_atoms_shape THEN TRUE
    ELSE IF get_synapse_id_by_target(synapse_ids, c.positive_receptor_type)
               = NoSynapseId THEN TRUE
    ELSE get_synapse_id_by_target(synapse_ids, c.negative_receptor_type)
             = NoSynapseId

\* kernel_weights.flatten(): row-major
RECURSIVE flatten(_)
flatten(matrix) ==
    IF matrix = << >> THEN << >> ELSE Head(matrix) \o flatten(Tail(matrix))

\* numpy.amax of a non-empty sequence
RECURSIVE amax(_)
amax(s) == IF Len(s) = 1 THEN s[1] ELSE Max(Head(s), amax(Tail(s)))

Abs(x) == IF x < 0 THEN -x ELSE x

\* get_weight_maximum: the float num / den.
get_weight_maximum(c) ==
    [num |-> amax(flatten(c.kernel_weights)), den |-> c.weight_den]

(***************************************************************************)
(* local_only_2d_common.get_div_const and the device parameter block.      *)
(***************************************************************************)
\* the least l with 2 ^ l >= value: int(math.ceil(math.log2(value)))
RECURSIVE ceil_log2_from(_, _)
ceil_log2_from(value, l) ==
    IF Pow(2, l) >= value THEN l ELSE ceil_log2_from(value, l + 1)

\* get_div_const(value): the 32-bit word holding the multiplier and the two
\* shifts of the division by the constant value (16-bit operands).
get_div_const(value) ==
    LET log_val == ceil_log2_from(value, 0)
        m == ((65536 * (Pow(2, log_val) - value)) \div value) + 1
        sh1 == Min(log_val, 1)
        sh2 == Max(log_val - 1, 0)
    IN  sh2 * 16777216 + sh1 * 65536 + m

\* numpy.array(values, dtype="uint16")
as_uint16(values) == [i \in DOMAIN values |-> values[i] % 65536]

\* short_values.view("uint32"): two shorts per word, the first in the low
\* half (little-endian).
view_uint32(shorts) ==
    [i \in 1..(Len(shorts) \div 2) |->
        shorts[2 * i - 1] + 65536 * shorts[2 * i]]

\* CONNECTOR_CONFIG_SIZE
CONNECTOR_CONFIG_SIZE == (10 * BYTES_PER_SHORT) + (4 * BYTES_PER_WORD)

\* parameters_n_bytes
parameters_n_bytes == CONNECTOR_CONFIG_SIZE

\* numpy.round of the float num / den (den > 0): the nearest integer, a
\* half going to the even one.
round(num, den) ==
    LET q == num \div den
        r == num % den
    IN  IF 2 * r < den THEN q
        ELSE IF 2 * r > den THEN q + 1
        ELSE IF q % 2 = 0 THEN q ELSE q + 1

\* astype(numpy.int16) of an integral value: the low 16 bits, as a signed
\* number.
as_int16(value) == ((value + Pow(2, 15)) % Pow(2, 16)) - Pow(2, 15)

\* get_encoded_kernel_weights: the int16 array returned, and the kernel
\* weights the connector holds afterwards (flatten() copies, the scaling is
\* done on the copy).  weight_scales is indexed by synapse id.
get_encoded_kernel_weights(c, synapse_ids, weight_scales) ==
    LET encoded_kernel_weights == flatten(c.kernel_weights)
        pos_synapse_type ==
            get_synapse_id_by_target(synapse_ids, c.positive_receptor_type)
        neg_synapse_type ==
            get_synapse_id_by_target(synapse_ids, c.negative_receptor_type)
        scaled(w) ==
            IF w < 0 THEN w * weight_scales[neg_synapse_type + 1]
            ELSE IF w > 0 THEN w * weight_scales[pos_synapse_type + 1]
            ELSE w
    IN  [encoded |->
             [i \in 1..Len(encoded_kernel_weights) |->
                 as_int16(round(scaled(encoded_kernel_weights[i]),
                                c.weight_den))],
         kernel_weights |-> c.kernel_weights]

\* Mutant: the trailing pad short is left out of the short values.
get_local_only_data_without_pad(c, synapse_ids, local_delay, delay_stage, weight_index) ==
    LET kernel_shape == kernel_shape_of(c.kernel_weights)
        ps == IF ~is_None(c.pool_stride) THEN c.pool_stride ELSE <<1, 1>>
        short_values == as_uint16(<<
            kernel_shape[2], kernel_shape[1],
            c.padding_shape[2], c.padding_shape[1],
            get_synapse_id_by_target(synapse_ids, c.positive_receptor_type),
            get_synapse_id_by_target(synapse_ids, c.negative_receptor_type),
            delay_stage, local_delay, weight_index>>)
        long_values == <<
            get_div_const(c.strides[2]), get_div_const(c.strides[1]),
            get_div_const(ps[2]), get_div_const(ps[1])>>
    IN  concatenate(view_uint32(short_values), long_values)

\* get_local_only_data: the uint32 words.
get_local_only_data(c, synapse_ids, local_delay, delay_stage, weight_index) ==
    LET kernel_shape == kernel_shape_of(c.kernel_weights)
        ps == IF ~is_None(c.pool_stride) THEN c.pool_stride ELSE <<1, 1>>
        short_values == as_uint16(<<
            kernel_shape[2], kernel_shape[1],
            c.padding_shape[2], c.padding_shape[1],
            get_synapse_id_by_target(synapse_ids, c.positive_receptor_type),
            get_synapse_id_by_target(synapse_ids, c.negative_receptor_type),
            delay_stage, local_delay, weight_index, 0>>)
        long_values == <<
            get_div_const(c.strides[2]), get_div_const(c.strides[1]),
            get_div_const(ps[2]), get_div_const(ps[1])>>
    IN  concatenate(view_uint32(short_values), long_values)

(***************************************************************************)
(* The ConvolutionConnector under use: its state machine.                  *)
(***************************************************************************)
\* kernel_shape arguments: an int or a pair
KernelShapeArgs ==
    {ArgScalar(k) : k \in 1..MaxKernel}
        \cup {ArgSeq(<<r, k>>) : r \in 1..MaxKernel, k \in 1..MaxKernel}

\* strides arguments: None, an int, a pair or a 1-tuple
StridesArgs ==
    {ArgNone} \cup {ArgScalar(k) : k \in 1..MaxStride}
        \cup {ArgSeq(<<1, MaxStride>>), ArgSeq(<<MaxStride>>)}

\* padding arguments: None, False, True, an int or a pair
PaddingArgs ==
    {ArgNone, ArgBool(FALSE), ArgBool(TRUE)}
        \cup {ArgScalar(k) : k \in 0..MaxPad}
        \cup {ArgSeq(<<0, MaxPad>>)}

\* pool_shape and pool_stride arguments: None or an int
PoolArgs == {ArgNone} \cup {ArgScalar(k) : k \in 1..MaxPool}

\* kernel weights given as a 2D list
WeightValues == {-2, 0, 1}
ListKernels ==
    UNION {[1..r -> [1..k -> WeightValues]] : r \in 1..2, k \in 1..2}

\* weight scales of the two synapse types: small ones, and one that takes
\* a unit weight to the top of the int16 range
ScaleValues == {1, MaxScale, Pow(2, 15)}
WeightScales == {<<a, b>> : a \in ScaleValues, b \in ScaleValues}

\* the receptor types a post vertex may have, and their ids
SynapseIdMaps ==
    {<< >>,
     [t \in {"excitatory"} |-> 0],
     [t \in {"inhibitory"} |-> 1],
     [t \in {"excitatory", "inhibitory"} |->
         IF t = "excitatory" THEN 0 ELSE 1]}

BothSynapseIds ==
    [t \in {"excitatory", "inhibitory"} |-> IF t = "excitatory" THEN 0 ELSE 1]

\* atoms_shape of the vertices of an edge
Shapes2D == {<<a, b>> : a \in 1..MaxShape, b \in 1..MaxShape}
PreAtomsShapes ==
    {<<a, b>> : a \in (MaxShape - 1)..MaxShape, b \in (MaxShape - 1)..MaxShape}
        \cup {<<MaxShape>>, <<2, 2, 2>>}
PostAtomsShapes == Shapes2D \cup {<<MaxShape>>, <<1, 1, 1>>}

\* Connectors built from a single weight and a kernel shape, over every
\* geometry.
InitConvGeometry ==
    \E kernel_shape \in KernelShapeArgs, strides \in StridesArgs,
       padding \in PaddingArgs, pool_shape \in PoolArgs,
       pool_stride \in PoolArgs :
       conv = ConvolutionConnector(
                  ArgScalar(1), kernel_shape, strides, padding, pool_shape,
                  pool_stride, "excitatory", "inhibitory", TRUE)

\* Connectors built from a 2D list of weights, with or without pooling.
InitConvWeights ==
    \E weights \in ListKernels, pool_shape \in {ArgNone, ArgScalar(2)} :
       conv = ConvolutionConnector(
                  ArgSeq(weights), ArgNone, ArgNone, ArgNone, pool_shape,
                  ArgNone, "excitatory", "inhibitory", TRUE)

InitConv ==
    /\ FnpIdle
    /\ ProjIdle
    /\ PdIdle
    /\ SoIdle
    /\ SpifIdle
    /\ ApiIdle
    /\ HolderIdle
    /\ conv_status = "constructed"
    /\ (InitConvGeometry \/ InitConvWeights)
    /\ conv_result = NoConvResult

\* connector.get_post_shape(shape)
ConvGetPostShape ==
    /\ conv_status = "constructed"
    /\ conv_result.op = "none"
    /\ \E shape \in Shapes2D :
          conv_result' = [NoConvResult EXCEPT
                             !.op = "get_post_shape",
                             !.shape = shape,
                             !.post_shape = get_post_shape(conv, shape)]
    /\ UNCHANGED <<conv_status, conv>>
    /\ UNCHANGED <<fnp_vars, proj_vars, pd_vars, so_vars, spif_vars, api_vars, holder_vars>>

\* connector.validate_connection(application_edge, synapse_info)
ConvValidateConnection ==
    /\ conv_status = "constructed"
    /\ conv_result.op = "none"
    /\ \E pre_atoms_shape \in PreAtomsShapes,
          post_atoms_shape \in PostAtomsShapes,
          synapse_ids \in SynapseIdMaps :
          conv_result' = [NoConvResult EXCEPT
                             !.op = "validate_connection",
                             !.pre_atoms_shape = pre_atoms_shape,
                             !.post_atoms_shape = post_atoms_shape,
                             !.synapse_ids = synapse_ids,
                             !.raised = conv_validate_connection_raises(
                                            conv, pre_atoms_shape,
                                            post_atoms_shape, synapse_ids)]
    /\ UNCHANGED <<conv_status, conv>>
    /\ UNCHANGED <<fnp_vars, proj_vars, pd_vars, so_vars, spif_vars, api_vars, holder_vars>>

\* connector.get_weight_maximum(synapse_info)
ConvGetWeightMaximum ==
    /\ conv_status = "constructed"
    /\ conv_result.op = "none"
    /\ conv_result' = [NoConvResult EXCEPT
                          !.op = "get_weight_maximum",
                          !.weight_maximum = get_weight_maximum(conv)]
    /\ UNCHANGED <<conv_status, conv>>
    /\ UNCHANGED <<fnp_vars, proj_vars, pd_vars, so_vars, spif_vars, api_vars, holder_vars>>

\* connector.get_local_only_data(app_edge, local_delay, delay_stage,
\* weight_index) on a validated edge, with the size the connector declares
ConvGetLocalOnlyData ==
    /\ conv_status = "constructed"
    /\ conv_result.op = "none"
    /\ \E local_delay \in 1..MaxDelay, delay_stage \in 0..MaxDelay,
          weight_index \in (0..MaxDelay) \cup {Pow(2, 16) + MaxDelay} :
          conv_result' = [NoConvResult EXCEPT
                             !.op = "get_local_only_data",
                             !.synapse_ids = BothSynapseIds,
                             !.local_delay = local_delay,
                             !.delay_stage = delay_stage,
                             !.weight_index = weight_index,
                             !.words = get_local_only_data(
                                           conv, BothSynapseIds, local_delay,
                                           delay_stage, weight_index),
                             !.size = parameters_n_bytes]
    /\ UNCHANGED <<conv_status, conv>>
    /\ UNCHANGED <<fnp_vars, proj_vars, pd_vars, so_vars, spif_vars, api_vars, holder_vars>>

\* connector.get_encoded_kernel_weights(app_edge, weight_scales) on a
\* validated edge
ConvGetEncodedKernelWeights ==
    /\ conv_status = "constructed"
    /\ conv_result.op = "none"
    /\ \E weight_scales \in WeightScales :
          LET r == get_encoded_kernel_weights(conv, BothSynapseIds,
                                              weight_scales)
          IN  /\ conv_result' = [NoConvResult EXCEPT
                                     !.op = "get_encoded_kernel_weights",
                                     !.synapse_ids = BothSynapseIds,
                                     !.weight_scales = weight_scales,
                                     !.encoded = r.encoded,
                                     !.kernel_weights_before =
                                         conv.kernel_weights]
              /\ conv' = [conv EXCEPT !.kernel_weights = r.kernel_weights]
    /\ UNCHANGED conv_status
    /\ UNCHANGED <<fnp_vars, proj_vars, pd_vars, so_vars, spif_vars, api_vars, holder_vars>>

\* The caller has consumed the result of the call; the next call can be made
\* (the build is single-threaded and synchronous).
ConvReturn ==
    /\ conv_status = "constructed"
    /\ conv_result.op # "none"
    /\ conv_result' = NoConvResult
    /\ UNCHANGED <<conv_status, conv>>
    /\ UNCHANGED <<fnp_vars, proj_vars, pd_vars, so_vars, spif_vars, api_vars, holder_vars>>

NextConv ==
    \/ ConvGetPostShape
    \/ ConvValidateConnection
    \/ ConvGetWeightMaximum
    \/ ConvGetLocalOnlyData
    \/ ConvGetEncodedKernelWeights
    \/ ConvReturn

SpecConv == InitConv /\ [][NextConv]_vars

\* Both connectors, for what is common to their device parameters.
SpecConnectors == (InitFNP \/ InitConv) /\ [][NextFNP \/ NextConv]_vars

(***************************************************************************)
(* Claims about ConvolutionConnector (checked under SpecConv).             *)
(***************************************************************************)
\* max(1, floor((pre - (kernel - 1) + 2 * padding) / stride))
PostExtent(pre, kernel, padding, stride) ==
    Max(1, (pre - (kernel - 1) + 2 * padding) \div stride)

\* kernel (5,5), stride (1,1), padding (2,2)
Kernel5Connector ==
    ConvolutionConnector(ArgScalar(1), ArgSeq(<<5, 5>>), ArgSeq(<<1, 1>>),
                         ArgSeq(<<2, 2>>), ArgNone, ArgNone,
                         "excitatory", "inhibitory", TRUE)

\* kernel (3,3), stride (2,2), no padding
Kernel3Connector ==
    ConvolutionConnector(ArgScalar(1), ArgSeq(<<3, 3>>), ArgSeq(<<2, 2>>),
                         ArgNone, ArgNone, ArgNone,
                         "excitatory", "inhibitory", TRUE)

PostShapeExamples ==
    /\ get_post_shape(Kernel5Connector, <<10, 10>>) = <<10, 10>>
    /\ get_post_shape(Kernel3Connector, <<8, 8>>) = <<3, 3>>

ValidationMustFail(c, pre_atoms_shape, post_atoms_shape, synapse_ids) ==
    \/ Len(pre_atoms_shape) # 2
    \/ Len(post_atoms_shape) # 2
    \/ /\ Len(pre_atoms_shape) = 2
       /\ post_atoms_shape # get_post_shape(c, pre_atoms_shape)
    \/ c.positive_receptor_type \notin DOMAIN synapse_ids
    \/ c.negative_receptor_type \notin DOMAIN synapse_ids

\* C7: validate_connection raises ConfigurationException if and only if the
\* pre- or post-vertex atoms_shape is not 2-dimensional, or the post vertex's
\* shape differs from get_post_shape(pre shape), or the post vertex has no
\* synapse id for the positive or for the negative receptor type.
C7_ValidateRaisesExactlyWhenInvalid ==
    conv_result.op = "validate_connection" =>
        (conv_result.raised <=>
            ValidationMustFail(conv, conv_result.pre_atoms_shape,
                               conv_result.post_atoms_shape,
                               conv_result.synapse_ids))

C7_Witness ==
    /\ conv_result.op = "validate_connection"
    /\ ~conv_result.raised
    /\ ~is_None(conv.pool_shape)
    /\ conv_result.post_atoms_shape # conv_result.pre_atoms_shape

\* C9: get_weight_maximum returns the maximum absolute value over all
\* kernel weights.
C9_WeightMaximumIsMaxAbs ==
    conv_result.op = "get_weight_maximum" =>
        /\ conv_result.weight_maximum.den = conv.weight_den
        /\ \A r \in DOMAIN conv.kernel_weights :
              \A k \in DOMAIN conv.kernel_weights[r] :
                  Abs(conv.kernel_weights[r][k])
                      <= conv_result.weight_maximum.num
        /\ \E r \in DOMAIN conv.kernel_weights :
              \E k \in DOMAIN conv.kernel_weights[r] :
                  Abs(conv.kernel_weights[r][k])
                      = conv_result.weight_maximum.num

(***************************************************************************)
(* Claims about both connectors (checked under SpecConnectors).            *)
(***************************************************************************)
\* C10: the declared device-parameter size equals the length of the
\* parameters produced: parameters_n_bytes is 4 times the number of words of
\* get_local_only_data, and gen_connector_params_size_in_bytes is 4 times
\* the number of words of gen_connector_params.
C10_DeclaredSizeIsLengthProduced ==
    /\ conv_result.op = "get_local_only_data" =>
          conv_result.size = BYTES_PER_WORD * Len(conv_result.words)
    /\ fnp_result.op = "gen_connector_params" =>
          fnp_result.size = BYTES_PER_WORD * Len(fnp_result.params)

C10_Witness ==
    /\ conv_result.op = "get_local_only_data"
    /\ ~is_None(conv.pool_stride)
    /\ Len(conv_result.words) = 9
    /\ conv_result.size = 36

(***************************************************************************)
(* Edge filtering: ConvolutionConnector.get_connected_vertices.            *)
(***************************************************************************)
\* The slices of the machine vertices of a 2D population of the given shape
\* split into tiles: start inclusive, stop exclusive, as Slice.get_slice.
Tiles(shape, tile) ==
    {[start |-> <<x, y>>,
      stop |-> <<Min(x + tile[1], shape[1]), Min(y + tile[2], shape[2])>>] :
        x \in {i * tile[1] : i \in 0..((shape[1] - 1) \div tile[1])},
        y \in {j * tile[2] : j \in 0..((shape[2] - 1) \div tile[2])}}

\* __pre_as_post of one (x, y) coordinate: divided by the pool stride, moved
\* by half the kernel and the padding, divided by the strides (floor
\* divisions).
pre_as_post(c, coords) ==
    LET pooled == IF ~is_None(c.pool_stride)
                  THEN [i \in 1..2 |-> coords[i] \div c.pool_stride[i]]
                  ELSE coords
        kernel_shape == kernel_shape_of(c.kernel_weights)
    IN  [i \in 1..2 |->
            (pooled[i] - (kernel_shape[i] \div 2) + c.padding_shape[i])
                \div c.strides[i]]

\* get_connected_vertices where the post slice is not widened by half the
\* kernel.
get_connected_vertices_without_half_kernel(c, pre_vertices, post_vertices) ==
    [post \in post_vertices |->
        {pre \in pre_vertices :
            LET pre_start == pre_as_post(c, pre.start)
                pre_end == pre_as_post(c, [i \in 1..2 |-> pre.stop[i] - 1])
            IN  /\ \A i \in 1..2 : pre_start[i] <= post.stop[i] - 1
                /\ \A i \in 1..2 : pre_end[i] >= post.start[i]}]

\* get_connected_vertices(s_info, source_vertex, target_vertex): for each
\* post machine vertex the pre machine vertices in range.  Without
\* filter_edges every pre vertex is connected to every post vertex.
get_connected_vertices(c, pre_vertices, post_vertices) ==
    IF ~c.filter_edges
    THEN [post \in post_vertices |-> pre_vertices]
    ELSE
    LET hlf_k == [i \in 1..2 |-> kernel_shape_of(c.kernel_weights)[i] \div 2]
    IN  [post \in post_vertices |->
            {pre \in pre_vertices :
                LET pre_start == pre_as_post(c, pre.start)
                    pre_end == pre_as_post(c, [i \in 1..2 |-> pre.stop[i] - 1])
                    min == [i \in 1..2 |-> post.start[i] - hlf_k[i]]
                    max == [i \in 1..2 |-> (post.stop[i] + hlf_k[i]) - 1]
                    start_in_range == ~(\E i \in 1..2 : pre_start[i] > max[i])
                    end_in_range == ~(\E i \in 1..2 : pre_end[i] < min[i])
                IN  start_in_range /\ end_in_range}]

\* Connectors with filter_edges, over kernels up to MaxEdgeKernel a side.
InitConvEdges ==
    /\ FnpIdle
    /\ ProjIdle
    /\ PdIdle
    /\ SoIdle
    /\ SpifIdle
    /\ ApiIdle
    /\ HolderIdle
    /\ conv_status = "constructed"
    /\ \E r \in 1..MaxEdgeKernel, k \in 1..MaxEdgeKernel,
          strides \in {ArgNone, ArgScalar(MaxStride), ArgSeq(<<1, MaxStride>>)},
          padding \in PaddingArgs, pool_shape \in PoolArgs,
          pool_stride \in PoolArgs :
          conv = ConvolutionConnector(
                     ArgScalar(1), ArgSeq(<<r, k>>), strides, padding,
                     pool_shape, pool_stride, "excitatory", "inhibitory",
                     TRUE)
    /\ conv_result = NoConvResult

\* connector.get_connected_vertices(s_info, source_vertex, target_vertex) on
\* a validated edge: the post-population has the shape get_post_shape gives,
\* both populations are split into tiles.
ConvGetConnectedVertices ==
    /\ conv_status = "constructed"
    /\ conv_result.op = "none"
    /\ \E pre_tile \in {<<2, 2>>, <<MaxTile, 2>>},
          post_tile \in {<<1, 1>>, <<2, MaxTile>>} :
          LET shape == <<MaxGrid, MaxGrid - 1>>
              post_shape == get_post_shape(conv, shape)
              pre_vertices == Tiles(shape, pre_tile)
              post_vertices == Tiles(post_shape, post_tile)
          IN  conv_result' = [NoConvResult EXCEPT
                                 !.op = "get_connected_vertices",
                                 !.shape = shape,
                                 !.post_shape = post_shape,
                                 !.pre_vertices = pre_vertices,
                                 !.post_vertices = post_vertices,
                                 !.connected = get_connected_vertices(
                                                   conv, pre_vertices,
                                                   post_vertices)]
    /\ UNCHANGED <<conv_status, conv>>
    /\ UNCHANGED <<fnp_vars, proj_vars, pd_vars, so_vars, spif_vars, api_vars, holder_vars>>

NextConvEdges ==
    \/ ConvGetConnectedVertices
    \/ ConvReturn

SpecConvEdges == InitConvEdges /\ [][NextConvEdges]_vars

\* The receptive-field box of a post tile in pre coordinates, per dimension
\* lo .. hi: post coordinate * stride - padding + kernel centre, widened by
\* half the kernel extent, a pooled coordinate standing for the pool_stride
\* pre coordinates it is made of.
ReceptiveFieldBox(c, post) ==
    LET K == kernel_shape_of(c.kernel_weights)
        ps == IF ~is_None(c.pool_stride) THEN c.pool_stride ELSE <<1, 1>>
        lo == [i \in 1..2 |->
                  post.start[i] * c.strides[i] - c.padding_shape[i]
                      + (K[i] \div 2) - (K[i] \div 2)]
        hi == [i \in 1..2 |->
                  (post.stop[i] - 1) * c.strides[i] - c.padding_shape[i]
                      + (K[i] \div 2) + (K[i] \div 2)]
    IN  [lo |-> [i \in 1..2 |-> lo[i] * ps[i]],
         hi |-> [i \in 1..2 |-> hi[i] * ps[i] + ps[i] - 1]]

\* The coordinate ranges of a tile intersect a box.
Intersects(tile, box) ==
    \A i \in 1..2 : tile.start[i] <= box.hi[i] /\ tile.stop[i] - 1 >= box.lo[i]

\* The pre-neuron at coordinates p is inside the receptive field of the
\* post-neuron at q: its pooled coordinate is one of the kernel_shape inputs
\* from q * stride - padding on (the inputs that get_post_shape counts).
InReceptiveField(c, p, q) ==
    LET K == kernel_shape_of(c.kernel_weights)
        ps == IF ~is_None(c.pool_stride) THEN c.pool_stride ELSE <<1, 1>>
    IN  \A i \in 1..2 :
            LET first == q[i] * c.strides[i] - c.padding_shape[i]
            IN  first <= p[i] \div ps[i] /\ p[i] \div ps[i] <= first + K[i] - 1

Neurons(tile) ==
    {<<x, y>> : x \in tile.start[1]..(tile.stop[1] - 1),
                y \in tile.start[2]..(tile.stop[2] - 1)}

ConnectedVerticesReturned == conv_result.op = "get_connected_vertices"

\* C20 (as stated): with filter_edges, for every post tile the pre tiles
\* get_connected_vertices retains are exactly those whose coordinate ranges
\* intersect the receptive-field box of the post tile.
C20_RetainsExactlyTilesIntersectingBox ==
    (ConnectedVerticesReturned /\ conv.filter_edges) =>
        \A post \in conv_result.post_vertices :
            conv_result.connected[post] =
                {pre \in conv_result.pre_vertices :
                    Intersects(pre, ReceptiveFieldBox(conv, post))}

\* C20 (amended): with filter_edges, for every post tile
\* get_connected_vertices retains every pre tile whose coordinate ranges
\* intersect the receptive-field box of the post tile, and exactly those
\* when both strides are 1; no pre tile that holds a pre-neuron inside the
\* receptive field of a post-neuron of the tile is left out.
C20_RetainsEveryTileIntersectingBox ==
    (ConnectedVerticesReturned /\ conv.filter_edges) =>
        \A post \in conv_result.post_vertices :
            LET in_box == {pre \in conv_result.pre_vertices :
                              Intersects(pre, ReceptiveFieldBox(conv, post))}
            IN  /\ in_box \subseteq conv_result.connected[post]
                /\ conv.strides = <<1, 1>> =>
                       conv_result.connected[post] = in_box
                /\ \A pre \in conv_result.pre_vertices :
                       (\E p \in Neurons(pre), q \in Neurons(post) :
                            InReceptiveField(conv, p, q))
                           => pre \in conv_result.connected[post]

\* A filtered edge with a 3 x 3 kernel and stride 1: some pre tile is
\* retained for a post tile and some pre tile is not.
C20_Witness ==
    /\ ConnectedVerticesReturned
    /\ conv.filter_edges
    /\ conv.strides = <<1, 1>>
    /\ kernel_shape_of(conv.kernel_weights) = <<3, 3>>
    /\ \E post \in conv_result.post_vertices :
          /\ conv_result.connected[post] # {}
          /\ conv_result.connected[post] # conv_result.pre_vertices

(***************************************************************************)
(* Projection construction.                                                *)
(*   graph record g:                                                       *)
(*     synapse_dynamics[v]       the synapse dynamics of vertex v          *)
(*     incoming_projections[v], outgoing_projections[v]                    *)
(*     edges                     the edges of the spike partition, each    *)
(*                               [pre_vertex, post_vertex,                 *)
(*                                synapse_information (a sequence)]        *)
(*     projections               the projections the data view holds       *)
(*     edge_number               the data view's counter of unlabelled     *)
(*                               edges                                     *)
(*     virtual_board             the "Machine" / "virtual_board" setting   *)
(*   populations are [kind, vertex, contiguous]; connectors are            *)
(*   [type, c] with c the connector record.                                *)
(***************************************************************************)
Vertices == {"A", "B", "P"}

\* the vertices: "A" a 1D population, "B" a 2D population, "P" a Poisson
\* spike source
vertex_n_atoms(v) == IF v = "B" THEN 4 ELSE 2
vertex_atoms_shape(v) == IF v = "B" THEN <<2, 2>> ELSE <<2>>
IsAbstractAcceptsIncomingSynapses(v) == v \in {"A", "B"}
IsAbstractPopulationVertex(v) == v \in {"A", "B"}
IsSpikeSourcePoissonVertex(v) == v = "P"
vertex_synapse_ids(v) ==
    IF v \in {"A", "B"} THEN BothSynapseIds ELSE << >>

\* synapse_dynamics.get_synapse_id_by_target: the dynamics explored provide
\* no receptor of their own.
dynamics_synapse_id_by_target(synapse_dynamics, receptor_type) == NoSynapseId

\* post_vertex.set_synapse_dynamics(synapse_dynamics): the dynamics the vertex
\* holds afterwards (static dynamics give way to any other).
set_synapse_dynamics(current, synapse_dynamics) ==
    IF synapse_dynamics = "SynapseDynamicsStatic" THEN current
    ELSE synapse_dynamics

\* The name rt of line 161 is bound neither in __init__ nor in the module:
\* evaluating it raises NameError.
rt_is_bound == FALSE

\* __check_population: "Population", "PopulationView" (is a view), or the
\* exception raised.
check_population(param) ==
    IF param.kind = "Population" THEN "Population"
    ELSE IF param.kind # "PopulationView" THEN "ConfigurationException"
    ELSE IF ~param.contiguous THEN "NotImplementedError"
    ELSE "PopulationView"

\* _find_existing_edge: the index of the first edge from pre to post, or 0.
find_existing_edge(g, pre_vertex, post_vertex) ==
    IF \E i \in DOMAIN g.edges :
          /\ g.edges[i].pre_vertex = pre_vertex
          /\ g.edges[i].post_vertex = post_vertex
    THEN CHOOSE i \in DOMAIN g.edges :
            /\ g.edges[i].pre_vertex = pre_vertex
            /\ g.edges[i].post_vertex = post_vertex
            /\ \A j \in 1..(i - 1) :
                  ~(/\ g.edges[j].pre_vertex = pre_vertex
                    /\ g.edges[j].post_vertex = post_vertex)
    ELSE 0

\* connector.set_projection_information(synapse_information): TRUE when it
\* raises.
connector_set_projection_information_raises(connector, pre, post) ==
    IF connector.type = "FixedNumberPostConnector"
    THEN set_projection_information_raises(
             connector.c,
             [n_pre_neurons |-> vertex_n_atoms(pre.vertex),
              n_post_neurons |-> vertex_n_atoms(post.vertex),
              same_population |-> pre = post])
    ELSE FALSE

\* connector.validate_connection(edge, synapse_information): TRUE when it
\* raises.
connector_validate_connection_raises(connector, pre_vertex, post_vertex) ==
    IF connector.type = "ConvolutionConnector"
    THEN conv_validate_connection_raises(
             connector.c, vertex_atoms_shape(pre_vertex),
             vertex_atoms_shape(post_vertex),
             vertex_synapse_ids(post_vertex))
    ELSE FALSE

\* The outcome of a constructor call: the exception raised ("none" when it
\* returns), the step that raised it, and the graph it leaves.
Outcome(raised, at, g) == [raised |-> raised, at |-> at, g |-> g]

\* Lines 185-205: the projection is registered, the virtual connection list
\* is held, and the vertices record the projection.
projection_register(g, id, pre_vertex, post_vertex, edge_index) ==
    LET n_info == Len(g.edges[edge_index].synapse_information)
        g1 == [g EXCEPT !.projections = Append(@, id)]
        g2 == IF g1.virtual_board
              THEN [g1 EXCEPT !.edges[edge_index].synapse_information[n_info]
                                  .pre_run_connection_holders =
                                      Append(@, "virtual")]
              ELSE g1
        g3 == IF IsAbstractPopulationVertex(post_vertex)
              THEN [g2 EXCEPT !.incoming_projections[post_vertex] =
                                  Append(@, id)]
              ELSE g2
        g4 == IF IsSpikeSourcePoissonVertex(pre_vertex)
              THEN [g3 EXCEPT !.outgoing_projections[pre_vertex] =
                                  Append(@, id)]
              ELSE g3
    IN  Outcome("none", "done", g4)

\* Lines 164-183: the connector is told of the projection, the synapse
\* information is put on the edge between the vertices (an existing one, or a
\* new one added to the graph), and the connector validates the edge.
projection_connect(g, id, a, synapse_information) ==
    LET pre_vertex == a.pre.vertex
        post_vertex == a.post.vertex
        edge_to_merge == find_existing_edge(g, pre_vertex, post_vertex)
        g1 == IF edge_to_merge # 0
              THEN [g EXCEPT !.edges[edge_to_merge].synapse_information =
                                 Append(@, synapse_information)]
              ELSE [g EXCEPT !.edges =
                                 Append(@, [pre_vertex |-> pre_vertex,
                                            post_vertex |-> post_vertex,
                                            synapse_information |->
                                                <<synapse_information>>])]
        edge_index == IF edge_to_merge # 0 THEN edge_to_merge
                      ELSE Len(g1.edges)
    IN  IF connector_set_projection_information_raises(
               a.connector, a.pre, a.post)
        THEN Outcome("SpynnakerException", "set_projection_information", g)
        ELSE IF connector_validate_connection_raises(
                    a.connector, pre_vertex, post_vertex)
        THEN Outcome("ConfigurationException", "validate_connection", g1)
        ELSE projection_register(g1, id, pre_vertex, post_vertex, edge_index)

\* Projection.__init__ for the call number id with the arguments a =
\* [pre, post, connector, synapse_type, source, receptor_type, label].
ProjectionInit(g, id, a) ==
    IF a.source # "None"
    THEN Outcome("NotImplementedError", "source", g)
    ELSE IF check_population(a.pre) \notin {"Population", "PopulationView"}
    THEN Outcome(check_population(a.pre), "check_population", g)
    ELSE IF check_population(a.post) \notin {"Population", "PopulationView"}
    THEN Outcome(check_population(a.post), "check_population", g)
    ELSE
    LET g1 == IF a.label = "None"
              THEN [g EXCEPT !.edge_number = @ + 1]
              ELSE g
        synapse_dynamics == IF a.synapse_type = "None"
                            THEN "SynapseDynamicsStatic"
                            ELSE a.synapse_type
        post_vertex == a.post.vertex
        id_of_vertex == get_synapse_id_by_target(
                            vertex_synapse_ids(post_vertex), a.receptor_type)
        synapse_id_from_dynamics == id_of_vertex = NoSynapseId
        synapse_id == IF id_of_vertex # NoSynapseId THEN id_of_vertex
                      ELSE dynamics_synapse_id_by_target(
                               synapse_dynamics, a.receptor_type)
        g2 == [g1 EXCEPT !.synapse_dynamics[post_vertex] =
                             set_synapse_dynamics(@, synapse_dynamics)]
        synapse_information ==
            [connector |-> a.connector,
             pre_population |-> a.pre,
             post_population |-> a.post,
             prepop_is_view |-> check_population(a.pre) = "PopulationView",
             postpop_is_view |-> check_population(a.post) = "PopulationView",
             synapse_dynamics |-> synapse_dynamics,
             synapse_type |-> synapse_id,
             receptor_type |-> "rt",
             synapse_type_from_dynamics |-> synapse_id_from_dynamics,
             pre_run_connection_holders |-> << >>,
             projection |-> id]
    IN  IF ~IsAbstractAcceptsIncomingSynapses(post_vertex)
        THEN Outcome("ConfigurationException", "post_vertex", g1)
        ELSE IF synapse_id = NoSynapseId
        THEN Outcome("ConfigurationException", "receptor_type", g1)
        ELSE IF ~rt_is_bound
        THEN Outcome("NameError", "SynapseInformation", g2)
        ELSE projection_connect(g2, id, a, synapse_information)

(***************************************************************************)
(* Projections being constructed: the state machine.                       *)
(***************************************************************************)
PopulationArgs ==
    {[kind |-> "Population", vertex |-> v, contiguous |-> TRUE] :
        v \in Vertices}
    \cup {[kind |-> "PopulationView", vertex |-> "A", contiguous |-> c] :
             c \in BOOLEAN}
    \cup {[kind |-> "list", vertex |-> "A", contiguous |-> TRUE]}

ConnectorArgs ==
    {[type |-> "FixedNumberPostConnector",
      c |-> FixedNumberPostConnector(n, FALSE, FALSE, "None")] :
         n \in {1, MaxN}}
    \cup {[type |-> "ConvolutionConnector",
           c |-> ConvolutionConnector(
                     ArgScalar(1), ArgScalar(k), ArgNone, ArgNone, ArgNone,
                     ArgNone, "excitatory", "inhibitory", TRUE)] :
              k \in {1, MaxKernel}}

ProjectionArgs ==
    [pre : PopulationArgs, post : PopulationArgs, connector : ConnectorArgs,
     synapse_type : {"None", "SynapseDynamicsSTDP"},
     source : {"None"},
     receptor_type : {"excitatory", "unknown"},
     label : {"None", "projection"}]
    \cup [pre : {[kind |-> "Population", vertex |-> "A",
                  contiguous |-> TRUE]},
          post : {[kind |-> "Population", vertex |-> "A",
                   contiguous |-> TRUE]},
          connector : ConnectorArgs,
          synapse_type : {"None"}, source : {"soma"},
          receptor_type : {"excitatory"}, label : {"None"}]

InitProj ==
    /\ FnpIdle
    /\ ConvIdle
    /\ PdIdle
    /\ SoIdle
    /\ SpifIdle
    /\ ApiIdle
    /\ HolderIdle
    /\ proj_status = "ready"
    /\ \E virtual_board \in BOOLEAN :
          graph = [synapse_dynamics |->
                       [v \in Vertices |-> "SynapseDynamicsStatic"],
                   incoming_projections |-> [v \in Vertices |-> << >>],
                   outgoing_projections |-> [v \in Vertices |-> << >>],
                   edges |-> << >>,
                   projections |-> << >>,
                   edge_number |-> 0,
                   virtual_board |-> virtual_board]
    /\ proj_result = [calls |-> 0, raised |-> "none", at |-> "none",
                      before |-> << >>, args |-> << >>]

\* Projection(pre, post, connector, synapse_type, source, receptor_type,
\* label=label)
NewProjection ==
    /\ proj_status = "ready"
    /\ proj_result.calls < MaxProjections
    /\ \E a \in ProjectionArgs :
          LET out == ProjectionInit(graph, proj_result.calls + 1, a)
          IN  /\ graph' = out.g
              /\ proj_result' = [calls |-> proj_result.calls + 1,
                                 raised |-> out.raised,
                                 at |-> out.at,
                                 before |-> graph,
                                 args |-> a]
    /\ UNCHANGED proj_status
    /\ UNCHANGED <<fnp_vars, conv_vars, pd_vars, so_vars, spif_vars, api_vars, holder_vars>>

NextProj == NewProjection

SpecProj == InitProj /\ [][NextProj]_vars

(***************************************************************************)
(* Claims about Projection construction.                                   *)
(***************************************************************************)
\* The steps of the constructor that configure the connector: creating the
\* synapse information handed to it, set_projection_information and
\* validate_connection.
ConnectorConfigurationSteps ==
    {"SynapseInformation", "set_projection_information",
     "validate_connection"}

\* The synapse informations the graph holds, edge by edge.
SynapseInformationOnEdges(g) ==
    [i \in DOMAIN g.edges |-> g.edges[i].synapse_information]

\* Nothing of the construction that raised is left in the graph: no edge and
\* no synapse information was added, the post vertex's synapse dynamics and
\* incoming projections are as before, and the projection is not registered.
NoPartialState ==
    LET before == proj_result.before
        post_vertex == proj_result.args.post.vertex
    IN  /\ Len(graph.edges) = Len(before.edges)
        /\ SynapseInformationOnEdges(graph)
             = SynapseInformationOnEdges(before)
        /\ graph.synapse_dynamics[post_vertex]
             = before.synapse_dynamics[post_vertex]
        /\ graph.incoming_projections[post_vertex]
             = before.incoming_projections[post_vertex]
        /\ graph.projections = before.projections

BITS_PER_SHORT == 16
N_COLOUR_BITS_BITS == 3
KEY_INFO_SIZE == 4 * BYTES_PER_WORD

SOURCE_INFO_SIZE == KEY_INFO_SIZE + BYTES_PER_WORD
SOURCE_INFO_DIM_SIZE == 9 * BYTES_PER_WORD
CONFIG_SIZE == 3 * BYTES_PER_WORD

\* The source vertices: "S1" is 1D, "S2" is 2D.
SourceVertices == {"S1", "S2"}
source_atoms_shape(v) == IF v = "S1" THEN <<3>> ELSE <<3, 2>>
source_n_colour_bits(v) == IF v = "S1" THEN 0 ELSE 1
MaxAtomsPerDimensionPerCore == 2

\* numpy.prod of a shape of any length
RECURSIVE prod_n(_)
prod_n(shape) == IF shape = << >> THEN 1 ELSE Head(shape) * prod_n(Tail(shape))

\* int(ceil(a / b))
ceil_div(a, b) == (a + b - 1) \div b

\* reversed(list)
reversed(s) == [i \in DOMAIN s |-> s[Len(s) + 1 - i]]

\* get_first_and_last_slice(pre_vertex): the shapes of the first and of the
\* last slice of the vertex.
get_first_and_last_slice(pre_vertex) ==
    LET shape == source_atoms_shape(pre_vertex)
        first == [i \in DOMAIN shape |->
                     Min(shape[i], MaxAtomsPerDimensionPerCore)]
    IN  [first_slice |-> first,
         last_slice |->
             [i \in DOMAIN shape |->
                 shape[i] - (ceil_div(shape[i], first[i]) - 1) * first[i]]]

\* get_rinfo_for_source(pre_vertex): the routing information of the
\* vertex, the mask of the core bits and their shift.
get_rinfo_for_source(pre_vertex) ==
    [key |-> IF pre_vertex = "S1" THEN 256 ELSE 512,
     mask |-> 2147483392,
     core_mask |-> 3,
     mask_shift |-> 2]

\* get_sources_for_target(app_vertex): the sources of the incoming
\* projections, grouped by source vertex in the order the vertices are first
\* met; a sequence of [pre_vertex, source_infos].
RECURSIVE get_sources_for_target(_)
get_sources_for_target(incoming) ==
    IF incoming = << >> THEN << >>
    ELSE LET n == Len(incoming)
             before == get_sources_for_target(SubSeq(incoming, 1, n - 1))
             source == [projection |-> incoming[n],
                        local_delay |-> 1, delay_stage |-> 0]
             pre_vertex == incoming[n].pre_vertex
         IN  IF \E i \in DOMAIN before : before[i].pre_vertex = pre_vertex
             THEN [i \in DOMAIN before |->
                      IF before[i].pre_vertex = pre_vertex
                      THEN [before[i] EXCEPT !.source_infos =
                                                 Append(@, source)]
                      ELSE before[i]]
             ELSE Append(before, [pre_vertex |-> pre_vertex,
                                  source_infos |-> <<source>>])

\* PoolDenseConnector: the number of weights of a connector block (one per
\* pair of source atom and target atom, an even number of 16-bit values).
pool_dense_n_weights(pre_shape, n_post_atoms) ==
    LET n_weights == prod_n(pre_shape) * n_post_atoms
    IN  n_weights + (n_weights % 2)

\* PoolDenseConnector.local_only_n_bytes(pre_shape, n_post_atoms)
local_only_n_bytes(pre_shape, n_post_atoms) ==
    (2 + Len(pre_shape)) * BYTES_PER_WORD
        + pool_dense_n_weights(pre_shape, n_post_atoms) * BYTES_PER_SHORT

\* PoolDenseConnector.get_local_only_data(app_edge, local_delay, delay_stage,
\* post_slice, weight_scales): the words of the connector block.
pool_dense_get_local_only_data(pre_vertex, local_delay, delay_stage, n_post_atoms) ==
    LET pre_shape == source_atoms_shape(pre_vertex)
        n_weights == pool_dense_n_weights(pre_shape, n_post_atoms)
    IN  <<delay_stage + 65536 * local_delay, Len(pre_shape)>>
            \o pre_shape
            \o view_uint32([i \in 1..n_weights |-> 1])

\* merge(synapse_dynamics) returns synapse_dynamics: the cache of the
\* dynamics the vertex holds afterwards, empty for a new LocalOnlyPoolDense.
merge(cached, synapse_dynamics) ==
    IF synapse_dynamics = "new LocalOnlyPoolDense" THEN << >> ELSE cached

\* The loop of get_parameters_usage_in_bytes over the first k incoming
\* projections: [raised, n_bytes, seen_edges].
RECURSIVE parameters_usage_loop(_, _, _)
parameters_usage_loop(incoming, k, n_atoms) ==
    IF k = 0 THEN [raised |-> FALSE, n_bytes |-> 0, seen_edges |-> {}]
    ELSE LET sofar == parameters_usage_loop(incoming, k - 1, n_atoms)
             app_edge == incoming[k].pre_vertex
             pre_shape == source_atoms_shape(incoming[k].pre_vertex)
             n_dims == Len(pre_shape)
             for_edge == IF app_edge \notin sofar.seen_edges
                         THEN SOURCE_INFO_SIZE + n_dims * SOURCE_INFO_DIM_SIZE
                         ELSE 0
         IN  IF sofar.raised THEN sofar
             ELSE IF incoming[k].connector # "PoolDenseConnector"
             THEN [sofar EXCEPT !.raised = TRUE]
             ELSE [raised |-> FALSE,
                   n_bytes |-> sofar.n_bytes + for_edge
                                  + local_only_n_bytes(pre_shape, n_atoms),
                   seen_edges |-> sofar.seen_edges \cup {app_edge}]

\* get_parameters_usage_in_bytes(n_atoms, incoming_projections):
\* [raised, n_bytes].
get_parameters_usage_in_bytes(n_atoms, incoming) ==
    LET done == parameters_usage_loop(incoming, Len(incoming), n_atoms)
    IN  [raised |-> done.raised, n_bytes |-> CONFIG_SIZE + done.n_bytes]

\* __get_sources_for_target(app_vertex): the cached sources of the vertex,
\* computed when there are none cached; cached is <<>> (no entry) or
\* <<sources>>.
cached_sources_after(cached, incoming) ==
    IF cached = << >> THEN <<get_sources_for_target(incoming)>> ELSE cached

\* The words of one dimension of a source (lines 158-177), given the
\* cumulative sizes before it.
dim_data(pre_vertex, i, cum_size, cum_cores_per_dim, cum_last_size) ==
    LET slices == get_first_and_last_slice(pre_vertex)
        pre_shape == source_atoms_shape(pre_vertex)
    IN  <<slices.first_slice[i], cum_size, get_div_const(cum_size),
          ceil_div(pre_shape[i], slices.first_slice[i]), cum_cores_per_dim,
          get_div_const(cum_cores_per_dim),
          slices.last_slice[i], cum_last_size, get_div_const(cum_last_size)>>

\* all_dim_data after the first k dimensions (lines 153-177).
RECURSIVE all_dim_data(_, _)
all_dim_data(pre_vertex, k) ==
    IF k = 0 THEN << >>
    ELSE LET slices == get_first_and_last_slice(pre_vertex)
             pre_shape == source_atoms_shape(pre_vertex)
             cores == [i \in DOMAIN pre_shape |->
                          ceil_div(pre_shape[i], slices.first_slice[i])]
         IN  Append(all_dim_data(pre_vertex, k - 1),
                    dim_data(pre_vertex, k,
                             prod_n(SubSeq(slices.first_slice, 1, k - 1)),
                             prod_n(SubSeq(cores, 1, k - 1)),
                             prod_n(SubSeq(slices.last_slice, 1, k - 1))))

\* The words describing one source vertex (lines 130-179).
source_words(source, first_conn_index) ==
    LET pre_vertex == source.pre_vertex
        r_info == get_rinfo_for_source(pre_vertex)
        n_dims == Len(source_atoms_shape(pre_vertex))
    IN  <<r_info.key, r_info.mask,
          Len(source.source_infos) * Pow(2, BITS_PER_SHORT)
              + source_n_colour_bits(pre_vertex)
                    * Pow(2, BITS_PER_SHORT - N_COLOUR_BITS_BITS)
              + first_conn_index,
          r_info.mask_shift * Pow(2, BITS_PER_SHORT) + r_info.core_mask,
          n_dims>>
        \o flatten(reversed(all_dim_data(pre_vertex, n_dims)))

\* The connector blocks of one source vertex (lines 121-128), one array per
\* source.
connector_blocks(source, n_atoms) ==
    [j \in DOMAIN source.source_infos |->
        pool_dense_get_local_only_data(
            source.pre_vertex, source.source_infos[j].local_delay,
            source.source_infos[j].delay_stage, n_atoms)]

\* The loop over the first k sources (lines 119-179):
\* [connector_data, source_data].
RECURSIVE build_data(_, _, _)
build_data(sources, k, n_atoms) ==
    IF k = 0 THEN [connector_data |-> << >>, source_data |-> << >>]
    ELSE LET sofar == build_data(sources, k - 1, n_atoms)
         IN  [connector_data |->
                  sofar.connector_data \o connector_blocks(sources[k], n_atoms),
              source_data |->
                  sofar.source_data
                      \o source_words(sources[k], Len(sofar.connector_data))]

\* What a call of write_parameters leaves: the exception raised ("none" when
\* it returns), the size reserved for the region (-1: none reserved), the
\* words written to the region and the number of write calls made.
Written(raised, reserved, words, n_writes) ==
    [raised |-> raised, reserved |-> reserved, words |-> words,
     n_writes |-> n_writes]

\* write_parameters(spec, region, machine_vertex, weight_scales) for a
\* machine vertex of n_atoms atoms, with the sources found in the cache.
write_parameters(sources, incoming, n_atoms) ==
    LET size == get_parameters_usage_in_bytes(n_atoms, incoming)
        data == build_data(sources, Len(sources), n_atoms)
        n_connectors == Len(data.connector_data)
        header == <<n_atoms, Len(sources), n_connectors>>
    IN  IF size.raised
        THEN Written("SynapticConfigurationException", -1, << >>, 0)
        ELSE IF data.connector_data = << >>
        THEN Written("ValueError", size.n_bytes,
                     header \o data.source_data, 4)
        ELSE Written("none", size.n_bytes,
                     header \o data.source_data
                         \o flatten(data.connector_data), 5)

(***************************************************************************)
(* LocalOnlyPoolDense: the state machine.                                  *)
(*   pd_result is [op, n_atoms, incoming, out]: the call made, the atoms   *)
(*   of the machine vertex and the incoming projections it was made with,  *)
(*   and what it left.                                                     *)
(***************************************************************************)
IncomingProjections ==
    [pre_vertex : SourceVertices,
     connector : {"PoolDenseConnector", "OtherConnector"}]

NoPdResult ==
    [op |-> "none", n_atoms |-> 0, incoming |-> << >>,
     out |-> Written("none", -1, << >>, 0)]

\* LocalOnlyPoolDense() set on a target vertex that has no incoming
\* projection yet.
InitPd ==
    /\ FnpIdle
    /\ ConvIdle
    /\ ProjIdle
    /\ SoIdle
    /\ SpifIdle
    /\ ApiIdle
    /\ HolderIdle
    /\ pd_status = "ready"
    /\ incoming_projections = << >>
    /\ cached_sources = << >>
    /\ pd_result = NoPdResult

\* A projection into the target vertex: the vertex merges the projection's
\* synapse dynamics into its own (merge returns the dynamics given, so a
\* LocalOnlyPoolDense made for this projection replaces the one the vertex
\* holds, and one shared between projections stays), and then
\* post_vertex.add_incoming_projection(projection).
PdAddIncomingProjection ==
    /\ pd_status = "ready"
    /\ Len(incoming_projections) < MaxIncoming
    /\ \E projection \in IncomingProjections :
          incoming_projections' = Append(incoming_projections, projection)
    /\ \E synapse_type \in {"shared LocalOnlyPoolDense",
                            "new LocalOnlyPoolDense"} :
          cached_sources' = merge(cached_sources, synapse_type)
    /\ UNCHANGED <<pd_status, pd_result>>
    /\ UNCHANGED <<fnp_vars, conv_vars, proj_vars, so_vars, spif_vars, api_vars, holder_vars>>

\* get_parameters_usage_in_bytes(n_atoms, app_vertex.incoming_projections)
PdGetParametersUsageInBytes ==
    /\ pd_status = "ready"
    /\ \E n_atoms \in 1..MaxAtoms :
          LET size == get_parameters_usage_in_bytes(
                          n_atoms, incoming_projections)
          IN  pd_result' =
                  [op |-> "get_parameters_usage_in_bytes",
                   n_atoms |-> n_atoms,
                   incoming |-> incoming_projections,
                   out |-> IF size.raised
                           THEN Written("SynapticConfigurationException",
                                        -1, << >>, 0)
                           ELSE Written("none", size.n_bytes, << >>, 0)]
    /\ UNCHANGED <<pd_status, incoming_projections, cached_sources>>
    /\ UNCHANGED <<fnp_vars, conv_vars, proj_vars, so_vars, spif_vars, api_vars, holder_vars>>

\* write_parameters(spec, region, machine_vertex, weight_scales)
PdWriteParameters ==
    /\ pd_status = "ready"
    /\ \E n_atoms \in 1..MaxAtoms :
          /\ cached_sources' =
                 cached_sources_after(cached_sources, incoming_projections)
          /\ pd_result' =
                 [op |-> "write_parameters",
                  n_atoms |-> n_atoms,
                  incoming |-> incoming_projections,
                  out |-> write_parameters(
                              cached_sources'[1], incoming_projections,
                              n_atoms)]
    /\ UNCHANGED <<pd_status, incoming_projections>>
    /\ UNCHANGED <<fnp_vars, conv_vars, proj_vars, so_vars, spif_vars, api_vars, holder_vars>>

NextPd ==
    \/ PdAddIncomingProjection
    \/ PdGetParametersUsageInBytes
    \/ PdWriteParameters

SpecPd == InitPd /\ [][NextPd]_vars

(***************************************************************************)
(* Claims about LocalOnlyPoolDense.                                        *)
(***************************************************************************)
\* write_parameters was called and returned.
ParametersWritten ==
    /\ pd_status = "ready"
    /\ pd_result.op = "write_parameters"
    /\ pd_result.out.raised = "none"

\* The words the layout gives the region for the projections of the call: 3
\* header words, 5 words plus 9 words per dimension for each distinct source
\* vertex, and every connector block.
LayoutWords ==
    LET incoming == pd_result.incoming
        blocks == [i \in DOMAIN incoming |->
                      local_only_n_bytes(
                          source_atoms_shape(incoming[i].pre_vertex),
                          pd_result.n_atoms) \div BYTES_PER_WORD]
        src == [v \in SourceVertices |->
                   IF \E i \in DOMAIN incoming : incoming[i].pre_vertex = v
                   THEN 5 + 9 * Len(source_atoms_shape(v)) ELSE 0]
    IN  3 + src["S1"] + src["S2"] + SumSeq(blocks)

\* C11: the number of bytes write_parameters writes (3 header words, then 5
\* words plus 9 words per dimension for each distinct source vertex, then
\* every connector block) equals the size it reserved for the region, the
\* value of get_parameters_usage_in_bytes.
C11_WrittenBytesEqualReservedSize ==
    ParametersWritten
        => /\ Len(pd_result.out.words) * BYTES_PER_WORD
                  = pd_result.out.reserved
           /\ Len(pd_result.out.words) = LayoutWords
           /\ pd_result.out.reserved =
                  get_parameters_usage_in_bytes(
                      pd_result.n_atoms, pd_result.incoming).n_bytes

\* C12: write_parameters is all-or-nothing: when it raises, no write call
\* has been made and nothing has been written to the parameter region.
C12_WriteParametersAllOrNothing ==
    (/\ pd_status = "ready"
     /\ pd_result.op = "write_parameters"
     /\ pd_result.out.raised # "none")
        => /\ pd_result.out.n_writes = 0
           /\ pd_result.out.words = << >>

(***************************************************************************)
(* Keys and masks.  A Python int that holds a key or a mask is modelled as *)
(* the set of the positions of its 1 bits, so that no width is imposed on  *)
(* it.                                                                     *)
(***************************************************************************)
\* The int n (0 <= n < 2^31) as a set of bit positions.
bits_of(n) == {i \in 0..30 : (n \div Pow(2, i)) % 2 = 1}

\* The value of a set of bit positions below 31.
RECURSIVE int_of(_)
int_of(b) ==
    IF b = {} THEN 0
    ELSE LET i == CHOOSE j \in b : TRUE
         IN  Pow(2, i) + int_of(b \ {i})

\* b << k and b >> k
shl(b, k) == {i + k : i \in b}
shr(b, k) == {i - k : i \in {j \in b : j >= k}}

\* (1 << n) - 1
low_bits(n) == 0..(n - 1)

\* a | b and a & b
bit_or(a, b) == a \cup b
bit_and(a, b) == a \cap b

\* a + b: the bits without carry, plus the carries one position up.
RECURSIVE add(_, _)
add(a, b) ==
    IF a \cap b = {} THEN a \cup b
    ELSE add((a \cup b) \ (a \cap b), shl(a \cap b, 1))

(***************************************************************************)
(* SourceOrder: the six orders of the polarity, x and y fields.            *)
(***************************************************************************)
SourceOrders == {"PXY", "XPY", "XYP", "PYX", "YPX", "YXP"}

\* PSHIFT(xbits, ybits) of the table
p_shift(order, x_bits, y_bits) ==
    CASE order = "PXY" -> x_bits + y_bits
      [] order = "XPY" -> y_bits
      [] order = "XYP" -> 0
      [] order = "PYX" -> x_bits + y_bits
      [] order = "YPX" -> x_bits
      [] order = "YXP" -> 0

\* An XSHIFT column that leaves no room for the polarity bit below x.
x_shift_without_polarity_bit(order, y_bits) ==
    CASE order = "PXY" -> y_bits
      [] order = "XPY" -> y_bits
      [] order = "XYP" -> y_bits
      [] order = "PYX" -> 0
      [] order = "YPX" -> 0
      [] order = "YXP" -> 0

\* XSHIFT(ybits) of the table
x_shift(order, y_bits) ==
    CASE order = "PXY" -> y_bits
      [] order = "XPY" -> y_bits + 1
      [] order = "XYP" -> y_bits + 1
      [] order = "PYX" -> 0
      [] order = "YPX" -> 0
      [] order = "YXP" -> 1

\* A YSHIFT column that leaves no room for the polarity bit below y.
y_shift_without_polarity_bit(order, x_bits) ==
    CASE order = "PXY" -> 0
      [] order = "XPY" -> 0
      [] order = "XYP" -> 0
      [] order = "PYX" -> x_bits
      [] order = "YPX" -> x_bits
      [] order = "YXP" -> x_bits

\* YSHIFT(xbits) of the table
y_shift(order, x_bits) ==
    CASE order = "PXY" -> 0
      [] order = "XPY" -> 0
      [] order = "XYP" -> 1
      [] order = "PYX" -> x_bits
      [] order = "YPX" -> x_bits + 1
      [] order = "YXP" -> x_bits + 1

\* 1 << p_shift
p_mask(order, x_bits, y_bits) == shl(bits_of(1), p_shift(order, x_bits, y_bits))

\* ((1 << x_bits) - 1) << x_shift
x_mask(order, x_bits, y_bits) == shl(low_bits(x_bits), x_shift(order, y_bits))

\* ((1 << y_bits) - 1) << y_shift
y_mask(order, x_bits, y_bits) == shl(low_bits(y_bits), y_shift(order, x_bits))

\* The key the device builds from the fields with the shifts it is given
\* (set_field_shift): (polarity << p_shift) | (x << x_shift) | (y << y_shift).
encode(order, x_bits, y_bits, x, y, polarity) ==
    bit_or(shl(bits_of(polarity), p_shift(order, x_bits, y_bits)),
           bit_or(shl(bits_of(x), x_shift(order, y_bits)),
                  shl(bits_of(y), y_shift(order, x_bits))))

\* A field read back from a key: (key & field_mask) >> field_shift.
decode_field(key, field_mask, field_shift) ==
    int_of(shr(bit_and(key, field_mask), field_shift))

(***************************************************************************)
(* SourceOrder: the state machine.                                         *)
(***************************************************************************)
\* The coordinates encoded in a field of n bits: all of them for a narrow
\* field, the extremes for a wide one.
Coordinates(n) ==
    IF n <= MaxCoordBits THEN 0..(Pow(2, n) - 1)
    ELSE {0, 1, Pow(2, n - 1), Pow(2, n) - 1}

NoSoResult ==
    [p_mask |-> {}, x_mask |-> {}, y_mask |-> {}, x |-> 0, y |-> 0,
     polarity |-> 0, key |-> {}, decoded |-> << >>]

\* A SourceOrder and the widths x_bits, y_bits >= 1 of a key that fits 32
\* bits.
InitSo ==
    /\ FnpIdle
    /\ ConvIdle
    /\ ProjIdle
    /\ PdIdle
    /\ SpifIdle
    /\ ApiIdle
    /\ HolderIdle
    /\ so_status = "chosen"
    /\ \E order \in SourceOrders, x_bits, y_bits \in 1..MaxFieldBits :
          /\ x_bits + y_bits + 1 <= 32
          /\ so = [order |-> order, x_bits |-> x_bits, y_bits |-> y_bits]
    /\ so_result = NoSoResult

\* so.p_mask(x_bits, y_bits), so.x_mask(x_bits, y_bits),
\* so.y_mask(x_bits, y_bits)
SoMasks ==
    /\ so_status = "chosen"
    /\ so_result' =
           [NoSoResult EXCEPT
               !.p_mask = p_mask(so.order, so.x_bits, so.y_bits),
               !.x_mask = x_mask(so.order, so.x_bits, so.y_bits),
               !.y_mask = y_mask(so.order, so.x_bits, so.y_bits)]
    /\ so_status' = "masks"
    /\ UNCHANGED so
    /\ UNCHANGED <<fnp_vars, conv_vars, proj_vars, pd_vars, spif_vars, api_vars, holder_vars>>

\* The key of an event (x, y, polarity)
SoEncode ==
    /\ so_status = "masks"
    /\ \E x \in Coordinates(so.x_bits), y \in Coordinates(so.y_bits),
          polarity \in {0, 1} :
          so_result' =
              [so_result EXCEPT
                  !.x = x, !.y = y, !.polarity = polarity,
                  !.key = encode(so.order, so.x_bits, so.y_bits,
                                 x, y, polarity)]
    /\ so_status' = "encoded"
    /\ UNCHANGED so
    /\ UNCHANGED <<fnp_vars, conv_vars, proj_vars, pd_vars, spif_vars, api_vars, holder_vars>>

\* The fields read back from the key
SoDecode ==
    /\ so_status = "encoded"
    /\ so_result' =
           [so_result EXCEPT
               !.decoded =
                   <<decode_field(so_result.key, so_result.x_mask,
                                  x_shift(so.order, so.y_bits)),
                     decode_field(so_result.key, so_result.y_mask,
                                  y_shift(so.order, so.x_bits)),
                     decode_field(so_result.key, so_result.p_mask,
                                  p_shift(so.order, so.x_bits, so.y_bits))>>]
    /\ so_status' = "decoded"
    /\ UNCHANGED so
    /\ UNCHANGED <<fnp_vars, conv_vars, proj_vars, pd_vars, spif_vars, api_vars, holder_vars>>

NextSo ==
    \/ SoMasks
    \/ SoEncode
    \/ SoDecode

SpecSo == InitSo /\ [][NextSo]_vars

(***************************************************************************)
(* Claims about SourceOrder.                                               *)
(***************************************************************************)
\* C13: for each SourceOrder and all x_bits, y_bits >= 1 with
\* x_bits + y_bits + 1 <= 32, p_mask, x_mask and y_mask are pairwise disjoint
\* and their union is exactly the low x_bits + y_bits + 1 bits, so that with a
\* base key shifted left by x_bits + y_bits + 1 they partition the 32 bits of
\* the key with no gap and no overlap.
C13_MasksPartitionLowBits ==
    so_status \in {"masks", "encoded", "decoded"}
        => LET key_shift == so.x_bits + so.y_bits + 1
               fields == bit_or(so_result.p_mask,
                                bit_or(so_result.x_mask, so_result.y_mask))
           IN  /\ bit_and(so_result.p_mask, so_result.x_mask) = {}
               /\ bit_and(so_result.p_mask, so_result.y_mask) = {}
               /\ bit_and(so_result.x_mask, so_result.y_mask) = {}
               /\ fields = low_bits(key_shift)
               /\ bit_and(fields, shl(low_bits(32 - key_shift), key_shift))
                      = {}
               /\ bit_or(fields, shl(low_bits(32 - key_shift), key_shift))
                      = low_bits(32)

\* The masks of a key whose fields fill all 32 bits but the lowest bit of the
\* base key have been computed.
C13_Witness ==
    /\ so_status = "masks"
    /\ so.x_bits + so.y_bits + 1 = 31
    /\ so.order = "XPY"
    /\ so_result.x_mask # {}

\* C14: for every SourceOrder, all x_bits, y_bits >= 1 and all x in
\* [0, 2^x_bits), y in [0, 2^y_bits), polarity in {0, 1}, decoding each field
\* of the key (polarity << p_shift) | (x << x_shift) | (y << y_shift) as
\* (key & field_mask) >> field_shift recovers exactly (x, y, polarity).
C14_DecodeRecoversFields ==
    so_status = "decoded"
        => so_result.decoded = <<so_result.x, so_result.y, so_result.polarity>>

\* An event with the largest coordinates and polarity 1 has been encoded and
\* decoded.
C14_Witness ==
    /\ so_status = "decoded"
    /\ so.order = "YPX"
    /\ so_result.x = Pow(2, so.x_bits) - 1
    /\ so_result.y = Pow(2, so.y_bits) - 1
    /\ so_result.polarity = 1
    /\ so_result.decoded = <<so_result.x, so_result.y, 1>>

(***************************************************************************)
(* SPIFRetinaDevice.                                                       *)
(***************************************************************************)
BITS_IN_KEY == 32
Y_MASK == 1
X_MASK == 3
X_PER_ROW == 4
N_POLARITY_BITS == 1

\* math.ceil(math.log2(n)) for n >= 1
RECURSIVE ceil_log2(_)
ceil_log2(n) == IF n <= 1 THEN 0 ELSE 1 + ceil_log2((n + 1) \div 2)

\* int(math.log2(v)) for v >= 1
RECURSIVE floor_log2(_)
floor_log2(v) == IF v <= 1 THEN 0 ELSE 1 + floor_log2(v \div 2)

\* get_n_bits(n_values): the bits needed for n_values values (1 bit for a
\* single value).
get_n_bits(n_values) ==
    IF n_values = 0 THEN 0
    ELSE IF n_values = 1 THEN 1
    ELSE ceil_log2(n_values)

\* __is_power_of_2(v) for v >= 1
is_power_of_2(v) == Pow(2, floor_log2(v)) = v

\* The checks of __init__ (lines 197-207): TRUE when ConfigurationException
\* is raised.
init_raises(sub_width, sub_height) ==
    \/ sub_width < X_MASK \/ sub_height < Y_MASK
    \/ ~is_power_of_2(sub_width) \/ ~is_power_of_2(sub_height)

\* __n_sub_squares(width, height, sub_width, sub_height)
n_sub_squares(width, height, sub_width, sub_height) ==
    ceil_div(width, sub_width) * ceil_div(height, sub_height)

\* __init__ (lines 208-265) once the checks have passed: the slots of the
\* device.
SPIFRetinaDevice(base_key, width, height, sub_width, sub_height, source_order) ==
    LET x_bits == get_n_bits(width)
        y_bits == get_n_bits(height)
        n_squares_per_row == ceil_div(width, sub_width)
        n_squares_per_col == ceil_div(height, sub_height)
        sub_x_bits == get_n_bits(n_squares_per_row)
        sub_y_bits == get_n_bits(n_squares_per_col)
        sub_x_mask == low_bits(sub_x_bits)
        sub_y_mask == low_bits(sub_y_bits)
        key_shift == y_bits + x_bits + N_POLARITY_BITS
        n_key_bits == BITS_IN_KEY - key_shift
        key_mask == low_bits(n_key_bits)
        fpga_y_shift == x_bits
        x_index_shift == x_bits - sub_x_bits
        y_index_shift == x_bits + (y_bits - sub_y_bits)
    IN  [n_machine_vertices_per_link |->
             n_sub_squares(width, height, sub_width, sub_height),
         width |-> width, height |-> height,
         sub_width |-> sub_width, sub_height |-> sub_height,
         n_atoms_per_subsquare |-> sub_width * sub_height,
         n_squares_per_row |-> n_squares_per_row,
         n_squares_per_col |-> n_squares_per_col,
         fpga_y_shift |-> fpga_y_shift,
         x_index_shift |-> x_index_shift,
         y_index_shift |-> y_index_shift,
         fpga_mask |->
             add(add(add(add(shl(key_mask, key_shift),
                             shl(sub_y_mask, y_index_shift)),
                         shl(bits_of(Y_MASK), fpga_y_shift)),
                     shl(sub_x_mask, x_index_shift)),
                 bits_of(X_MASK)),
         key_bits |-> shl(bits_of(base_key), key_shift),
         index_by_slice |-> {},
         base_key |-> base_key,
         source_order |-> source_order,
         x_bits |-> x_bits, y_bits |-> y_bits]

\* __incoming_fpgas: the FPGA link ids, every other odd link
incoming_fpga_link_ids == {1, 3, 5, 7, 9, 11, 13, 15}

\* __sub_square_bits(fpga_link_id): <<fpga_x_index, fpga_y_index>>
sub_square_bits(fpga_link_id) ==
    LET fpga_index == (fpga_link_id - 1) \div 2
    IN  <<fpga_index % X_PER_ROW, fpga_index \div X_PER_ROW>>

\* __sub_square(index): <<x_index, y_index>>
sub_square(d, index) ==
    <<index % d.n_squares_per_row, index \div d.n_squares_per_row>>

\* get_incoming_slice_for_link(link, index): the slice (lo_atom, hi_atom,
\* shape, start), and the entry put into __index_by_slice.
get_incoming_slice_for_link(d, fpga_link_id, index) ==
    LET sq == sub_square(d, index)
        lo_atom == index * d.n_atoms_per_subsquare
        vertex_slice ==
            [lo_atom |-> lo_atom,
             hi_atom |-> (lo_atom + d.n_atoms_per_subsquare) - 1,
             shape |-> <<d.sub_width, d.sub_height>>,
             start |-> <<sq[1] * d.sub_width, sq[2] * d.sub_height>>]
    IN  [vertex_slice |-> vertex_slice,
         entry |-> [fpga_link_id |-> fpga_link_id,
                    vertex_slice |-> vertex_slice, index |-> index]]

\* get_outgoing_partition_constraints(partition) for the machine vertex of
\* the link and slice given: the key, the mask and the fields of the key.
get_outgoing_partition_constraints(d, fpga_link_id, vertex_slice) ==
    LET entry == CHOOSE e \in d.index_by_slice :
                     /\ e.fpga_link_id = fpga_link_id
                     /\ e.vertex_slice = vertex_slice
        index == entry.index
        fpga == sub_square_bits(fpga_link_id)
        sq == sub_square(d, index)
    IN  [fpga_key |->
             add(add(add(add(d.key_bits,
                             shl(bits_of(sq[2]), d.y_index_shift)),
                         shl(bits_of(fpga[2]), d.fpga_y_shift)),
                     shl(bits_of(sq[1]), d.x_index_shift)),
                 bits_of(fpga[1])),
         fpga_mask |-> d.fpga_mask,
         fpga_x |-> fpga[1], fpga_y |-> fpga[2],
         x_index |-> sq[1], y_index |-> sq[2]]

(***************************************************************************)
(* SPIFRetinaDevice: the state machine.                                    *)
(*   spif_result is [op, args, raised, out].                               *)
(***************************************************************************)
\* The base keys given to a device whose key has n_key_bits bits for it: the
\* smallest, the largest that fits, and the first that does not.
BaseKeys(n_key_bits) ==
    {0, 1, Pow(2, n_key_bits) - 1, Pow(2, n_key_bits)}

NoSpifResult == [op |-> "none", args |-> << >>, raised |-> FALSE, out |-> << >>]

InitSpif ==
    /\ FnpIdle
    /\ ConvIdle
    /\ ProjIdle
    /\ PdIdle
    /\ SoIdle
    /\ ApiIdle
    /\ HolderIdle
    /\ spif_status = "new"
    /\ spif = << >>
    /\ spif_result = NoSpifResult

\* SPIFRetinaDevice(base_key, width, height, sub_width, sub_height,
\* source_order)
SpifInit ==
    /\ spif_status = "new"
    /\ \E width \in 1..MaxWidth, height \in 1..MaxHeight,
          sub_width \in 0..MaxSubWidth, sub_height \in 0..MaxSubHeight,
          source_order \in SourceOrders :
          \E base_key \in BaseKeys(BITS_IN_KEY - (get_n_bits(width)
                                      + get_n_bits(height) + N_POLARITY_BITS)) :
             LET args == [base_key |-> base_key, width |-> width,
                          height |-> height, sub_width |-> sub_width,
                          sub_height |-> sub_height,
                          source_order |-> source_order]
             IN  IF init_raises(sub_width, sub_height)
                 THEN /\ spif_status' = "rejected"
                      /\ spif' = << >>
                      /\ spif_result' = [op |-> "__init__", args |-> args,
                                         raised |-> TRUE, out |-> << >>]
                 ELSE /\ spif_status' = "constructed"
                      /\ spif' = SPIFRetinaDevice(
                                     base_key, width, height, sub_width,
                                     sub_height, source_order)
                      /\ spif_result' = [op |-> "__init__", args |-> args,
                                         raised |-> FALSE, out |-> << >>]
    /\ UNCHANGED <<fnp_vars, conv_vars, proj_vars, pd_vars, so_vars, api_vars, holder_vars>>

\* The machine vertices of the device are made: get_incoming_slice_for_link
\* is called for every incoming link and every index below
\* n_machine_vertices_per_link.
SpifGetIncomingSlices ==
    /\ spif_status = "constructed"
    /\ spif' = [spif EXCEPT !.index_by_slice =
                   {get_incoming_slice_for_link(spif, link, index).entry :
                       link \in incoming_fpga_link_ids,
                       index \in 0..(spif.n_machine_vertices_per_link - 1)}]
    /\ spif_status' = "sliced"
    /\ spif_result' = [spif_result EXCEPT !.op = "none"]
    /\ UNCHANGED <<fnp_vars, conv_vars, proj_vars, pd_vars, so_vars, api_vars, holder_vars>>

\* get_outgoing_partition_constraints(partition) for the partition of one of
\* the machine vertices
SpifGetOutgoingPartitionConstraints ==
    /\ spif_status = "sliced"
    /\ spif_result.op = "none"
    /\ \E entry \in spif.index_by_slice :
          spif_result' =
              [spif_result EXCEPT
                  !.op = "get_outgoing_partition_constraints",
                  !.out = get_outgoing_partition_constraints(
                              spif, entry.fpga_link_id, entry.vertex_slice)]
    /\ UNCHANGED <<spif_status, spif>>
    /\ UNCHANGED <<fnp_vars, conv_vars, proj_vars, pd_vars, so_vars, api_vars, holder_vars>>

\* The caller has the constraints and may ask for another vertex's.
SpifReturn ==
    /\ spif_status = "sliced"
    /\ spif_result.op # "none"
    /\ spif_result' = [spif_result EXCEPT !.op = "none", !.out = << >>]
    /\ UNCHANGED <<spif_status, spif>>
    /\ UNCHANGED <<fnp_vars, conv_vars, proj_vars, pd_vars, so_vars, api_vars, holder_vars>>

NextSpif ==
    \/ SpifInit
    \/ SpifGetIncomingSlices
    \/ SpifGetOutgoingPartitionConstraints
    \/ SpifReturn

SpecSpif == InitSpif /\ [][NextSpif]_vars

(***************************************************************************)
(* Claims about SPIFRetinaDevice.                                          *)
(***************************************************************************)
\* C15: SPIFRetinaDevice construction raises ConfigurationException whenever
\* sub_width < 4 or sub_height < 2 or either is not a power of two, and
\* accepts every sub_width >= 4 and sub_height >= 2 that are both powers of
\* two.
C15_RejectsBelow4By2AndNonPowersOf2 ==
    spif_status \in {"rejected", "constructed"}
        => (spif_result.raised
               <=> \/ spif_result.args.sub_width < 4
                   \/ spif_result.args.sub_height < 2
                   \/ ~is_power_of_2(spif_result.args.sub_width)
                   \/ ~is_power_of_2(spif_result.args.sub_height))

\* The constraints of a machine vertex have been returned.
ConstraintsReturned ==
    /\ spif_status = "sliced"
    /\ spif_result.op = "get_outgoing_partition_constraints"

\* C16: for every configuration the constructor accepts and every base_key,
\* the key and the mask returned by get_outgoing_partition_constraints are
\* integers in [0, 2^32), and the base key occupies exactly the bits above
\* the x, y and polarity fields.
C16_KeyAndMaskFit32Bits ==
    ConstraintsReturned
        => LET key_shift == spif.x_bits + spif.y_bits + N_POLARITY_BITS
           IN  /\ spif_result.out.fpga_key \subseteq low_bits(BITS_IN_KEY)
               /\ spif_result.out.fpga_mask \subseteq low_bits(BITS_IN_KEY)
               /\ shr(spif_result.out.fpga_key, key_shift)
                      = bits_of(spif.base_key)

\* The five fields of the key of the constraints returned, each shifted to
\* its place: base key, sub-square y index, FPGA y index, sub-square x index,
\* FPGA x index.
KeyFields ==
    <<spif.key_bits,
      shl(bits_of(spif_result.out.y_index), spif.y_index_shift),
      shl(bits_of(spif_result.out.fpga_y), spif.fpga_y_shift),
      shl(bits_of(spif_result.out.x_index), spif.x_index_shift),
      bits_of(spif_result.out.fpga_x)>>

\* The bit ranges of the five fields, as the mask is built from them.
MaskFields ==
    LET key_shift == spif.x_bits + spif.y_bits + N_POLARITY_BITS
    IN  <<shl(low_bits(BITS_IN_KEY - key_shift), key_shift),
          shl(low_bits(get_n_bits(spif.n_squares_per_col)),
              spif.y_index_shift),
          shl(bits_of(Y_MASK), spif.fpga_y_shift),
          shl(low_bits(get_n_bits(spif.n_squares_per_row)),
              spif.x_index_shift),
          bits_of(X_MASK)>>

\* C19: for every accepted configuration, every FPGA link and every
\* sub-square index, the five fields of the key occupy pairwise disjoint bit
\* ranges, so the sums that build the key and the mask equal the bitwise OR
\* of the shifted fields and each field can be read back from the key
\* unchanged.
C19_KeyFieldsDisjoint ==
    ConstraintsReturned
        => /\ \A i, j \in 1..5 :
                 i # j => bit_and(MaskFields[i], MaskFields[j]) = {}
           /\ spif_result.out.fpga_mask = UNION Range(MaskFields)
           /\ spif_result.out.fpga_key = UNION Range(KeyFields)
           /\ \A i \in 1..5 :
                 bit_and(spif_result.out.fpga_key, MaskFields[i])
                     = KeyFields[i]


(***************************************************************************)
(* spynnaker.pyNN.setup() and end() (src/spynnaker/pyNN/__init__.py).      *)
(* SpynnakerDataView and the class SpiNNaker are not part of the sources   *)
(* at hand: the view is its status, a SpiNNaker instance is the calls made *)
(* on it and its write_on_end list.                                        *)
(***************************************************************************)
MaxSetups == 3        \* most calls of setup()
MaxWriteOnEnd == 2    \* most entries of one simulator's write_on_end

\* SpynnakerDataView.is_setup()
is_setup(status) == status = "SETUP"

\* SpynnakerDataView.is_shutdown()
is_shutdown(status) == status = "SHUTDOWN"

\* SpynnakerDataView.check_valid_simulator(): TRUE when it raises
\* SimulatorNotSetupException
check_valid_simulator_raises(status) == status = "NOT_SETUP"

\* A SpiNNaker instance as constructed: no call made on it, nothing to write
\* on end.
SpiNNaker == [cleared |-> 0, clear_raised |-> 0, stopped |-> 0, write_on_end |-> 0]

\* What a call leaves behind: the view's status, the simulator globals, the
\* instances, and what the call did (events are the calls made on
\* simulators, in order; written counts population.write_data calls).
ApiOutcome(raised, status, sim, insts, events, written) ==
    [raised |-> raised, data_status |-> status, simulator |-> sim,
     instances |-> insts, events |-> events, written |-> written]

\* setup (lines 313-320) where a failure of clear() is not caught: the
\* exception leaves setup before the new simulator is created.
setup_not_catching_clear(status, sim, insts, clear_raises, spinnaker_raises, status_if_raised) ==
    LET clear_called == is_setup(status) /\ sim.pyNN # 0
        cleared == IF clear_called
                   THEN [insts EXCEPT ![sim.pyNN].cleared = @ + 1]
                   ELSE insts
        clear_events == IF clear_called
                        THEN <<[op |-> "clear", id |-> sim.pyNN]>>
                        ELSE << >>
        new == Len(cleared) + 1
    IN  IF (clear_called /\ clear_raises) \/ spinnaker_raises
        THEN ApiOutcome(TRUE, status, sim, cleared, clear_events, 0)
        ELSE ApiOutcome(FALSE, "SETUP",
                        [pyNN |-> new, external_devices |-> new],
                        Append(cleared, SpiNNaker),
                        clear_events \o <<[op |-> "SpiNNaker", id |-> new]>>,
                        0)

\* setup(...), lines 313-331: when the view is set up, clear() of the
\* current simulator inside try / except Exception (an assertion failure for
\* a missing simulator is caught as well); then SpiNNaker(...), which may
\* raise (lines 288-291) and then leaves the globals as they were; then
\* external_devices._set_simulator.
setup(status, sim, insts, clear_raises, spinnaker_raises, status_if_raised) ==
    LET clear_called == is_setup(status) /\ sim.pyNN # 0
        cleared == IF clear_called
                   THEN [insts EXCEPT ![sim.pyNN].cleared = @ + 1,
                                      ![sim.pyNN].clear_raised =
                                          IF clear_raises THEN @ + 1 ELSE @]
                   ELSE insts
        clear_events == IF clear_called
                        THEN <<[op |-> "clear", id |-> sim.pyNN]>>
                        ELSE << >>
        new == Len(cleared) + 1
    IN  IF spinnaker_raises
        THEN ApiOutcome(TRUE, status_if_raised, sim, cleared, clear_events, 0)
        ELSE ApiOutcome(FALSE, "SETUP",
                        [pyNN |-> new, external_devices |-> new],
                        Append(cleared, SpiNNaker),
                        clear_events \o <<[op |-> "SpiNNaker", id |-> new]>>,
                        0)

\* end (lines 422-437) without the two early returns.
end_without_early_return(status, sim, insts) ==
    IF sim.pyNN = 0
    THEN ApiOutcome(TRUE, status, sim, insts, << >>, 0)
    ELSE ApiOutcome(FALSE, "SHUTDOWN", sim,
                    [insts EXCEPT ![sim.pyNN].write_on_end = 0,
                                  ![sim.pyNN].stopped = @ + 1],
                    <<[op |-> "stop", id |-> sim.pyNN]>>,
                    insts[sim.pyNN].write_on_end)

\* end(), lines 422-437: ignored after shutdown and before setup; otherwise
\* the assertion, one write_data per write_on_end entry, the list emptied,
\* stop().
end(status, sim, insts) ==
    IF is_shutdown(status)
    THEN ApiOutcome(FALSE, status, sim, insts, << >>, 0)
    ELSE IF check_valid_simulator_raises(status)
    THEN ApiOutcome(FALSE, status, sim, insts, << >>, 0)
    ELSE IF sim.pyNN = 0
    THEN ApiOutcome(TRUE, status, sim, insts, << >>, 0)
    ELSE ApiOutcome(FALSE, "SHUTDOWN", sim,
                    [insts EXCEPT ![sim.pyNN].write_on_end = 0,
                                  ![sim.pyNN].stopped = @ + 1],
                    <<[op |-> "stop", id |-> sim.pyNN]>>,
                    insts[sim.pyNN].write_on_end)

NoApiResult ==
    [op |-> "none", raised |-> FALSE, status_before |-> "NOT_SETUP",
     simulator_before |-> 0, clear_raises |-> FALSE,
     spinnaker_raises |-> FALSE, events |-> << >>, written |-> 0]

InitApi ==
    /\ api_status = "ready"
    /\ data_status = "NOT_SETUP"
    /\ simulator = [pyNN |-> 0, external_devices |-> 0]
    /\ instances = << >>
    /\ setup_calls = 0
    /\ api_result = NoApiResult
    /\ FnpIdle
    /\ ConvIdle
    /\ ProjIdle
    /\ PdIdle
    /\ SoIdle
    /\ SpifIdle
    /\ HolderIdle

ApiCommit(op, clear_raises, spinnaker_raises, o) ==
    /\ data_status' = o.data_status
    /\ simulator' = o.simulator
    /\ instances' = o.instances
    /\ api_result' = [op |-> op, raised |-> o.raised,
                      status_before |-> data_status,
                      simulator_before |-> simulator.pyNN,
                      clear_raises |-> clear_raises,
                      spinnaker_raises |-> spinnaker_raises,
                      events |-> o.events, written |-> o.written]
    /\ UNCHANGED api_status

\* A call of setup(): clear() of the previous simulator and SpiNNaker(...)
\* each succeed or raise; a SpiNNaker(...) that raises has or has not set
\* the view up before it does.
ApiSetup ==
    /\ api_status = "ready"
    /\ setup_calls < MaxSetups
    /\ setup_calls' = setup_calls + 1
    /\ \E clear_raises \in BOOLEAN, spinnaker_raises \in BOOLEAN :
         \E status_if_raised \in {data_status, "SETUP"} :
           ApiCommit("setup", clear_raises, spinnaker_raises,
                     setup(data_status, simulator, instances,
                           clear_raises, spinnaker_raises, status_if_raised))
    /\ UNCHANGED <<fnp_vars, conv_vars, proj_vars, pd_vars, so_vars, spif_vars, holder_vars>>

\* A call of end()
ApiEnd ==
    /\ api_status = "ready"
    /\ ApiCommit("end", FALSE, FALSE, end(data_status, simulator, instances))
    /\ UNCHANGED setup_calls
    /\ UNCHANGED <<fnp_vars, conv_vars, proj_vars, pd_vars, so_vars, spif_vars, holder_vars>>

\* A recording to a file is requested of the current simulator: one more
\* entry in its write_on_end.
ApiWriteOnEnd ==
    /\ api_status = "ready"
    /\ is_setup(data_status)
    /\ simulator.pyNN # 0
    /\ instances[simulator.pyNN].write_on_end < MaxWriteOnEnd
    /\ instances' = [instances EXCEPT ![simulator.pyNN].write_on_end = @ + 1]
    /\ api_result' = NoApiResult
    /\ UNCHANGED <<api_status, data_status, simulator, setup_calls>>
    /\ UNCHANGED <<fnp_vars, conv_vars, proj_vars, pd_vars, so_vars, spif_vars, holder_vars>>

NextApi ==
    \/ ApiSetup
    \/ ApiEnd
    \/ ApiWriteOnEnd

SpecApi == InitApi /\ [][NextApi]_vars


\* The last call was setup(), made while the view was set up and the module
\* held a simulator.
SetupOverSimulator ==
    /\ api_result.op = "setup"
    /\ is_setup(api_result.status_before)
    /\ api_result.simulator_before # 0

\* C17: a setup() called while a simulator is set up calls clear() of the
\* previous simulator before it creates the new SpiNNaker instance, and it
\* creates and installs the new one also when clear() raised (setup raises
\* only when SpiNNaker(...) does); after any setup calls the current
\* simulator, of the module and of external_devices, is the one created
\* last.
C17_SetupClearsPreviousThenInstallsNew ==
    /\ simulator.pyNN = Len(instances)
    /\ simulator.external_devices = simulator.pyNN
    /\ SetupOverSimulator =>
         /\ api_result.events # << >>
         /\ api_result.events[1] =
                [op |-> "clear", id |-> api_result.simulator_before]
         /\ instances[api_result.simulator_before].cleared >= 1
    /\ (api_result.op = "setup" /\ ~api_result.spinnaker_raises) =>
         /\ ~api_result.raised
         /\ api_result.events[Len(api_result.events)] =
                [op |-> "SpiNNaker", id |-> simulator.pyNN]
         /\ simulator.pyNN = api_result.simulator_before + 1
         /\ is_setup(data_status)
         /\ instances[simulator.pyNN] = SpiNNaker

\* A second setup() whose clear() of the first simulator raised, and which
\* created the second simulator.
C17_Witness ==
    /\ SetupOverSimulator
    /\ api_result.clear_raises
    /\ ~api_result.raised
    /\ api_result.events =
           <<[op |-> "clear", id |-> 1], [op |-> "SpiNNaker", id |-> 2]>>
    /\ simulator.pyNN = 2

\* The last call was end(), made after shutdown or before any setup.
EndWithoutSimulator ==
    /\ api_result.op = "end"
    /\ api_result.status_before \in {"SHUTDOWN", "NOT_SETUP"}

\* C18: an end() called after shutdown or before any setup returns without
\* raising, writes no write_on_end data and calls no stop(); over any
\* setup / end calls, stop() has been called at most once per setup() call.
C18_EndIgnoredWithoutSimulator ==
    /\ EndWithoutSimulator =>
         /\ ~api_result.raised
         /\ api_result.written = 0
         /\ api_result.events = << >>
         /\ data_status = api_result.status_before
    /\ SumSeq([i \in DOMAIN instances |-> instances[i].stopped]) <= setup_calls

\* A second end(): the simulator was stopped by the first, once.
C18_Witness ==
    /\ EndWithoutSimulator
    /\ is_shutdown(api_result.status_before)
    /\ simulator.pyNN # 0
    /\ instances[simulator.pyNN].stopped = 1


(***************************************************************************)
(* Claims about the memoized selection of FixedNumberPostConnector.        *)
(***************************************************************************)
\* C21: a _get_post_neurons query returns a selection built for the
\* SynapseInformation it is made with, one entry per pre-neuron of it and
\* indices below its n_post_neurons, also when the connector has answered a
\* query with another SynapseInformation before.
C21_SelectionIsForTheQueriedSynapseInformation ==
    fnp_result.op = "_get_post_neurons" =>
        /\ Len(fnp.post_neurons) = synapse_info.n_pre_neurons
        /\ \A m \in DOMAIN fnp.post_neurons :
              Range(fnp.post_neurons[m])
                  \subseteq 0..(synapse_info.n_post_neurons - 1)


\* The blocks collected are those of slices that partition
\* [0, n_post_neurons).
BlocksCoverPostPopulation ==
    /\ fnp_result.blocks # << >>
    /\ fnp_result.blocks[Len(fnp_result.blocks)].hi_atom
           = synapse_info.n_post_neurons - 1

\* How often the pair (source, target) is a row of one of the blocks.
RowsInBlocks(blocks, source, target) ==
    SumSeq([i \in DOMAIN blocks |->
               Count(blocks[i].rows, [source |-> source, target |-> target])])

SourcesOf(incoming) == {incoming[i].pre_vertex : i \in DOMAIN incoming}

\* C23: a write_parameters call writes the sources of the topology it is
\* made on, also when an earlier call was made before a further projection
\* from a new source vertex was added: the source count of the header and
\* the source descriptors are those of the incoming projections the
\* reserved size was computed from.
C23_SecondWriteUsesCurrentSources ==
    ParametersWritten =>
        LET current == get_sources_for_target(pd_result.incoming)
            data == build_data(current, Len(current), pd_result.n_atoms)
            n_source_words == Len(data.source_data)
        IN  /\ pd_result.out.words[2] = Cardinality(SourcesOf(pd_result.incoming))
            /\ Len(pd_result.out.words) >= 3 + n_source_words
            /\ SubSeq(pd_result.out.words, 4, 3 + n_source_words)
                   = data.source_data


(***************************************************************************)
(* Claims about the device parameters of ConvolutionConnector.             *)
(***************************************************************************)
\* The 32-bit word holding two 16-bit fields, the earlier one in the low 16
\* bits.
Packed(earlier, later) == earlier + Pow(2, 16) * later

\* C24: get_local_only_data returns nine 32-bit words; words 0 to 4 hold
\* kernel height, kernel width, padding height, padding width, positive and
\* negative synapse type, delay stage, per-core delay, weight index and a
\* zero pad, two per word, the earlier field in the low 16 bits, each value
\* stored as it is; words 5 to 8 hold the division constants of the strides
\* and of the pooling strides (1 without pooling).  Shapes are (x, y) pairs
\* like the coordinates of __pre_as_post and the pool stride unpacked as
\* ps_x, ps_y: the width is the first entry and the height the second.
C24_NineWordsFieldsInOrder ==
    conv_result.op = "get_local_only_data" =>
        LET kernel_shape == kernel_shape_of(conv.kernel_weights)
            width == 1
            height == 2
            ps == IF ~is_None(conv.pool_stride) THEN conv.pool_stride
                  ELSE <<1, 1>>
            words == conv_result.words
        IN  /\ Len(words) = 9
            /\ words[1] = Packed(kernel_shape[height], kernel_shape[width])
            /\ words[2] = Packed(conv.padding_shape[height],
                                 conv.padding_shape[width])
            /\ words[3] = Packed(
                   get_synapse_id_by_target(conv_result.synapse_ids,
                                            conv.positive_receptor_type),
                   get_synapse_id_by_target(conv_result.synapse_ids,
                                            conv.negative_receptor_type))
            /\ words[4] = Packed(conv_result.delay_stage,
                                 conv_result.local_delay)
            /\ words[5] = Packed(conv_result.weight_index, 0)
            /\ {words[6], words[7]}
                   = {get_div_const(conv.strides[i]) : i \in 1..2}
            /\ {words[8], words[9]} = {get_div_const(ps[i]) : i \in 1..2}

\* C25: get_encoded_kernel_weights returns one int16 per kernel weight, in
\* row-major order: the weight times the scale of the positive synapse type
\* when it is positive, times the scale of the negative synapse type when
\* negative, 0 when 0, rounded and not wrapped around; the kernel weights
\* the connector holds are those it held before the call.
C25_EncodedWeightsAreScaledNotWrapped ==
    conv_result.op = "get_encoded_kernel_weights" =>
        LET weights == flatten(conv_result.kernel_weights_before)
            pos == get_synapse_id_by_target(conv_result.synapse_ids,
                                            conv.positive_receptor_type)
            neg == get_synapse_id_by_target(conv_result.synapse_ids,
                                            conv.negative_receptor_type)
            scale(w) == IF w > 0 THEN conv_result.weight_scales[pos + 1]
                        ELSE IF w < 0 THEN conv_result.weight_scales[neg + 1]
                        ELSE 0
        IN  /\ Len(conv_result.encoded) = Len(weights)
            /\ \A i \in 1..Len(weights) :
                  conv_result.encoded[i]
                      = round(weights[i] * scale(weights[i]), conv.weight_den)
            /\ conv.kernel_weights = conv_result.kernel_weights_before


(***************************************************************************)
(* Claims about Projection: completion, edges and connection holders.      *)
(***************************************************************************)
\* Arguments the constructor documents as valid: populations or contiguous
\* views, no source, a post vertex that accepts synapses and has the
\* receptor type, and a connector that accepts the two populations.
ValidProjectionArgs(a) ==
    /\ a.source = "None"
    /\ check_population(a.pre) \in {"Population", "PopulationView"}
    /\ check_population(a.post) \in {"Population", "PopulationView"}
    /\ IsAbstractAcceptsIncomingSynapses(a.post.vertex)
    /\ get_synapse_id_by_target(vertex_synapse_ids(a.post.vertex),
                                a.receptor_type) # NoSynapseId
    /\ ~connector_set_projection_information_raises(a.connector, a.pre,
                                                      a.post)
    /\ ~connector_validate_connection_raises(a.connector, a.pre.vertex,
                                               a.post.vertex)

\* A constructor call has been made with valid arguments.
ValidProjectionCall ==
    /\ proj_status = "ready"
    /\ proj_result.calls > 0
    /\ ValidProjectionArgs(proj_result.args)

\* The edges of the graph from pre_vertex to post_vertex
EdgesBetween(g, pre_vertex, post_vertex) ==
    {i \in DOMAIN g.edges : /\ g.edges[i].pre_vertex = pre_vertex
                            /\ g.edges[i].post_vertex = post_vertex}

\* The number of entries of the sequence q that are x
Occurrences(q, x) == Cardinality({i \in DOMAIN q : q[i] = x})

\* C26: for valid arguments the construction of a Projection runs to
\* completion; its SynapseInformation carries the receptor_type the caller
\* passed, the projection is registered with the data view exactly once and
\* is appended to the incoming projections of the post vertex.
C26_ValidConstructionCompletes ==
    ValidProjectionCall =>
        LET a == proj_result.args
            id == proj_result.calls
            incoming == graph.incoming_projections[a.post.vertex]
        IN  /\ proj_result.raised = "none"
            /\ \E i \in EdgesBetween(graph, a.pre.vertex, a.post.vertex) :
                  \E k \in DOMAIN graph.edges[i].synapse_information :
                     /\ graph.edges[i].synapse_information[k].projection = id
                     /\ graph.edges[i].synapse_information[k].receptor_type
                            = a.receptor_type
            /\ Occurrences(graph.projections, id) = 1
            /\ incoming # << >>
            /\ incoming[Len(incoming)] = id

ConnectionHolder(id, as_list, notify) ==
    [id |-> id, as_list |-> as_list, notify |-> notify, finished |-> FALSE]

\* connection_holder.finish()
finish(connection_holder) == [connection_holder EXCEPT !.finished = TRUE]

\* _get_synaptic_data: the projection afterwards and the holder returned.
\* connections is what post_vertex.get_connections_from_machine returns when
\* it is called: "None" or the connections.
get_synaptic_data(p, as_list, notify, connections) ==
    LET id == p.n_holders + 1
        connection_holder == ConnectionHolder(id, as_list, notify)
        p1 == [p EXCEPT !.n_holders = id]
    IN  IF p.virtual_connection_list # "None"
        THEN [projection |-> p1, holder |-> finish(connection_holder)]
        ELSE IF ~p.is_ran_ever
        THEN [projection |->
                  [p1 EXCEPT !.pre_run_connection_holders = Append(@, id)],
              holder |-> connection_holder]
        ELSE IF connections # "None"
        THEN [projection |-> p1, holder |-> finish(connection_holder)]
        ELSE [projection |-> p1, holder |-> connection_holder]

MaxHolders == 3

\* A Projection as lines 185-196 of its constructor leave it: on a virtual
\* board it holds a virtual connection list and the holder of that list
\* (number 0) is registered; nothing has run.
InitHolder ==
    /\ FnpIdle
    /\ ConvIdle
    /\ ProjIdle
    /\ PdIdle
    /\ SoIdle
    /\ SpifIdle
    /\ ApiIdle
    /\ holder_status = "constructed"
    /\ \E virtual_board \in BOOLEAN :
          the_projection = [virtual_connection_list |->
                            IF virtual_board THEN "list" ELSE "None",
                        pre_run_connection_holders |->
                            IF virtual_board THEN <<0>> ELSE << >>,
                        is_ran_ever |-> FALSE,
                        n_holders |-> 0]
    /\ holder_result = << >>

\* the_projection.get(attribute_names, format, with_address) and
\* the_projection.save(attribute_names, file, format, with_address): both
\* end in _get_synaptic_data, save with a notify callback.
ProjectionGetOrSave ==
    /\ holder_status = "constructed"
    /\ the_projection.n_holders < MaxHolders
    /\ \E method \in {"get", "save"}, format \in {"list", "array"},
          connections \in {"None", "connections"} :
          LET r == get_synaptic_data(
                       the_projection, format = "list",
                       IF method = "save" THEN "save_callback" ELSE "None",
                       connections)
          IN  /\ the_projection' = r.projection
              /\ holder_result' =
                     [method |-> method,
                      holder |-> r.holder,
                      is_ran_ever |-> the_projection.is_ran_ever,
                      connections |->
                          IF /\ the_projection.is_ran_ever
                             /\ the_projection.virtual_connection_list
                                    = "None"
                          THEN connections ELSE "not asked"]
    /\ UNCHANGED holder_status
    /\ UNCHANGED <<fnp_vars, conv_vars, proj_vars, pd_vars, so_vars, spif_vars, api_vars>>

\* sim.run(...): the data view reports that a run has happened.
ProjectionRun ==
    /\ holder_status = "constructed"
    /\ ~the_projection.is_ran_ever
    /\ the_projection' = [the_projection EXCEPT !.is_ran_ever = TRUE]
    /\ UNCHANGED <<holder_status, holder_result>>
    /\ UNCHANGED <<fnp_vars, conv_vars, proj_vars, pd_vars, so_vars, spif_vars, api_vars>>

NextHolder == ProjectionGetOrSave \/ ProjectionRun

SpecHolder == InitHolder /\ [][NextHolder]_vars

\* The holder returned by the last get or save is registered as a pre-run
\* connection holder.
HolderRegistered ==
    \E i \in DOMAIN the_projection.pre_run_connection_holders :
       the_projection.pre_run_connection_holders[i] = holder_result.holder.id

PoolStrideInUse(c) ==
    IF ~is_None(c.pool_stride) THEN c.pool_stride ELSE <<1, 1>>

\* The post shape of a pre-shape that has been divided by the pool stride in
\* use.
PostShapeOfPooled(c, shape) ==
    LET ps == PoolStrideInUse(c)
        pooled == [i \in 1..2 |-> shape[i] \div ps[i]]
        kernel_shape == kernel_shape_of(c.kernel_weights)
    IN  [i \in 1..2 |->
            Max((pooled[i] - (kernel_shape[i] - 1) + 2 * c.padding_shape[i])
                    \div c.strides[i], 1)]

\* C29: pooling is applied consistently: get_post_shape divides the
\* pre-shape by the pool stride exactly when __pre_as_post and
\* get_local_only_data use the pool stride, for every combination of
\* pool_shape and pool_stride given or None.
C29_PoolingAppliedConsistently ==
    /\ conv_result.op = "get_post_shape" =>
          conv_result.post_shape = PostShapeOfPooled(conv, conv_result.shape)
    /\ conv_result.op = "get_local_only_data" =>
          /\ conv_result.words[8] = get_div_const(PoolStrideInUse(conv)[2])
          /\ conv_result.words[9] = get_div_const(PoolStrideInUse(conv)[1])
    /\ conv_result.op = "get_connected_vertices" =>
          \A pre \in conv_result.pre_vertices :
             pre_as_post(conv, pre.start)
                 = pre_as_post([conv EXCEPT !.pool_stride = None],
                               [i \in 1..2 |->
                                   pre.start[i]
                                       \div PoolStrideInUse(conv)[i]])


(***************************************************************************)
(* Claim about the slices of SPIFRetinaDevice.                             *)
(***************************************************************************)
\* The slice lies within the retina of the device: its atoms are atoms of
\* the device and its rectangle is inside width x height.
SliceWithinRetina(d, vertex_slice) ==
    /\ vertex_slice.lo_atom >= 0
    /\ vertex_slice.hi_atom < d.width * d.height
    /\ vertex_slice.start[1] + vertex_slice.shape[1] <= d.width
    /\ vertex_slice.start[2] + vertex_slice.shape[2] <= d.height

\* The atom ranges of the two slices have no atom in common.
DisjointAtoms(a, b) == a.hi_atom < b.lo_atom \/ b.hi_atom < a.lo_atom

\* C30: for every configuration SPIFRetinaDevice accepts and every index
\* below the number of sub-squares, the slice get_incoming_slice_for_link
\* returns lies within the retina (hi_atom < width * height, and start +
\* shape <= (width, height) in each dimension), also when width or height is
\* not a multiple of the sub-square size; slices of distinct indices cover
\* disjoint atom ranges.
C30_SlicesWithinRetinaAndDisjoint ==
    spif_status = "sliced" =>
        /\ \A e \in spif.index_by_slice :
              SliceWithinRetina(spif, e.vertex_slice)
        /\ \A e1 \in spif.index_by_slice, e2 \in spif.index_by_slice :
              e1.index # e2.index
                  => DisjointAtoms(e1.vertex_slice, e2.vertex_slice)

============================================================================
